---- MODULE Spec2Model ----
(***************************************************************************)
(* A model of the dds build executor (src/dds/build/plan/compile_exec.cpp) *)
(* and of the package catalog (src/dds/catalog/catalog.cpp).               *)
(*                                                                         *)
(* SpecBuild   : compile_all / parallel_run / do_compile / should_compile  *)
(*               together with an environment that edits files and flags   *)
(*               between builds.                                           *)
(* SpecCatalog : catalog::store / get / dependencies_of / import_json_str  *)
(*               over the two tables created by migrate_repodb_1.          *)
(***************************************************************************)
EXTENDS Integers, Sequences, FiniteSets, TLC

(***************************************************************************)
(* Bounds of the model                                                      *)
(***************************************************************************)
\* number of calls of compile_all that are explored
MaxBuilds == 2
\* number of edits (file saves, flag changes) between the builds; the
\* filesystem clock ticks once per edit
MaxTime == 1

\* number of store / import_json_str calls that are explored
MaxOps == 2
\* number of catalog::open calls that are explored
MaxOpens == 3

\* calls of solve on one catalog and one list of roots
MaxSolves == 2

\* calls of create_archive_plan::archive for one library
MaxArchives == 2

(***************************************************************************)
(* The build plan and the environment of a build                            *)
(***************************************************************************)
\* std::thread::hardware_concurrency() of the machine
HardwareConcurrency == 0

\* the values of build_params::parallel_jobs that are explored
ParallelJobsInputs == {0, 1}

\* the compile_file_plans handed to compile_all, in order (source paths)
Compiles == <<"a.cpp", "b.cpp">>

Jobs == {Compiles[i] : i \in 1..Len(Compiles)}

\* the headers each source includes, as the compiler reports them
Includes(j) == IF j = "a.cpp" THEN <<"h.hpp">> ELSE <<>>

InputFiles == Jobs \cup {"h.hpp"}

\* compile_file_plan::calc_object_file_path
ObjectFilePath(j) == IF j = "a.cpp" THEN "a.o" ELSE "b.o"

Objects == {ObjectFilePath(j) : j \in Jobs}

DepsModes == {"none", "gnu", "msvc"}

\* the toolchain's flag sets; the second one holds an argument with a space
FlagSets == {<<"-c">>, <<"-D", "X=a b", "-c">>}

\* compile_file_plan::generate_compile_command: the argument vector
GenerateCompileCommand(j, fl) == <<"cc">> \o fl \o <<j>>

\* quote_command: arguments joined by spaces, an argument holding whitespace
\* is wrapped in double quotes
QuoteArg(a) == IF a = "X=a b" THEN "\"X=a b\"" ELSE a

RECURSIVE QuoteCommand(_)
QuoteCommand(cmd) ==
    IF cmd = <<>> THEN ""
    ELSE IF Len(cmd) = 1 THEN QuoteArg(cmd[1])
    ELSE QuoteArg(cmd[1]) \o " " \o QuoteCommand(Tail(cmd))

NoRecord == [command |-> "", inputs |-> <<>>, command_output |-> <<>>]

\* the std::thread objects of parallel_run's vector, in creation order
ThreadIds == <<"t1", "t2">>

Workers == {ThreadIds[i] : i \in 1..(HardwareConcurrency + 2)}

(***************************************************************************)
(* Catalog data: versions, dependencies, package_info values, documents     *)
(***************************************************************************)
AllVersions == {<<1, 0, 0>>, <<2, 0, 0>>, <<3, 0, 0>>}

\* semver::version::to_string
VersionToString(v) == ToString(v[1]) \o "." \o ToString(v[2]) \o "." \o ToString(v[3])

\* semver::version::parse
VersionParse(str) == CHOOSE v \in AllVersions : VersionToString(v) = str

PackageIds == {[name |-> "a", version |-> <<1, 0, 0>>],
               [name |-> "a", version |-> <<2, 0, 0>>],
               [name |-> "b", version |-> <<1, 0, 0>>]}

\* dds::dependency with its single version interval [low, high)
Dep(n, lo, hi) == [name |-> n, low |-> lo, high |-> hi]

\* the collation of the dependency names (ORDER BY dep_name)
DepNameOrder == <<"x", "y">>

DepNameRank(n) == CHOOSE i \in 1..Len(DepNameOrder) : DepNameOrder[i] = n

\* std::optional<lm::usage> as a sequence of at most one usage
Usage(ns, n) == <<[namespace_ |-> ns, name |-> n]>>

GitRemoteListing(u, r, al) == [url |-> u, ref |-> r, auto_lib |-> al]

PackageInfo(id, ds, desc, rem) ==
    [ident |-> id, deps |-> ds, description |-> desc, remote |-> rem]

\* the contents a package_info is given, besides its id: the dependency
\* list (one out of name order, one naming "x" twice), the description and
\* the auto_lib (absent, set, both strings empty, one string empty)
Contents ==
    { [deps |-> <<>>, description |-> "d1", auto_lib |-> <<>>],
      [deps |-> <<Dep("y", <<1, 0, 0>>, <<2, 0, 0>>), Dep("x", <<1, 0, 0>>, <<2, 0, 0>>)>>,
       description |-> "d2", auto_lib |-> Usage("ns", "n")],
      [deps |-> <<Dep("x", <<2, 0, 0>>, <<3, 0, 0>>)>>, description |-> "d1",
       auto_lib |-> <<>>],
      [deps |-> <<Dep("x", <<1, 0, 0>>, <<2, 0, 0>>), Dep("x", <<2, 0, 0>>, <<3, 0, 0>>)>>,
       description |-> "d1", auto_lib |-> <<>>],
      [deps |-> <<Dep("x", <<1, 0, 0>>, <<2, 0, 0>>)>>, description |-> "d1",
       auto_lib |-> Usage("", "")],
      [deps |-> <<>>, description |-> "d2", auto_lib |-> Usage("ns", "")] }

PackageInfos ==
    {PackageInfo(id, c.deps, c.description, GitRemoteListing("u", "r", c.auto_lib)) :
        id \in PackageIds, c \in Contents}

NoPackage == [ident |-> "none"]

VARIABLES
    \* ---- the catalog database
    dds_cat_pkgs,       \* rows of table dds_cat_pkgs
    dds_cat_pkg_deps,   \* rows of table dds_cat_pkg_deps
    sqlite_sequence,    \* the AUTOINCREMENT counters of the two tables
    cat_result,         \* how the last catalog operation ended
    n_ops,              \* store / import calls so far
    stored,             \* per package id: the package_info last stored
    dds_cat_meta,       \* table dds_cat_meta: the text of its one row, or its absence
    tables_exist,       \* dds_cat_pkgs and dds_cat_pkg_deps have been created
    handle,             \* "open" while a catalog object holds the database
    n_opens,            \* calls of catalog::open so far
    migrations,         \* runs of migrate_repodb_1 that were committed
    \* ---- package manifests
    man_input,          \* the manifest file the last load was given
    man_result,         \* what the last load returned or threw
    \* ---- main
    cli_pc,             \* position of main: "start", "dispatch", "returned",
                        \* "thrown", "exited"
    cli_cmd,            \* the command the parser selected
    cli_ret,            \* the value the command's run() returned
    cli_exc,            \* the exception that left run()
    exit_code,          \* the value main returned
    \* ---- package_id
    id_lhs,             \* a package_id
    id_rhs,             \* another package_id
    id_text,            \* id_lhs.to_string()
    id_parsed,          \* package_id::parse(id_text)
    id_cmp,             \* the results of the comparison operators on the two
    \* ---- the repository and the processes that use it
    repo_lock,          \* per process: the lock it holds on the repository
    repo_dirs,          \* per <name>@<version> subdirectory: the sdist in it
    tmp_sdist,          \* the tree at temp_directory_path() / ".dds-sdist"
    proc_pc,            \* per process: its position in the command
    proc_cmd,           \* per process: the command it runs
    proc_sdist,         \* per process: the dds::sdist that create_sdist returned
    proc_status,        \* per process: "ok", or the exception of its callback
    proc_deps,          \* per process: the package ids repo.solve returned
    proc_bd,            \* per process: the sdists added to the builder, in order
    \* ---- the dependency solver
    sol_cat,            \* the catalog database solve reads
    sol_roots,          \* the root dependencies solve is given
    sol_results,        \* what the calls of solve so far returned or threw
    \* ---- create_archive_plan::archive
    ar_inputs,          \* the object files of the library (ar.input_files)
    ar_file,            \* what is at ar.out_path: "absent", "prior", "partial", "new"
    ar_dir,             \* ar.out_path.parent_path() exists
    ar_pc,              \* position inside archive()
    ar_res,             \* the proc_result of the archiver
    ar_exc,             \* the exception that left archive()
    n_archives,         \* calls of archive() so far
    \* ---- do_compile, one call
    dc_input,           \* the job, the deps mode, the flags and what run_proc gave
    dc_result,          \* what do_compile returned, threw and logged
    \* ---- environment of the build
    deps_mode,      \* env.toolchain.deps_mode()
    parallel_jobs,  \* build_params::parallel_jobs, the njobs argument
    flags,          \* the toolchain flags the commands are generated from
    mtime,          \* last-write time of every input file
    objfile,        \* per object file: does it exist, and its last-write time
    now,            \* the filesystem clock
    db,             \* env.db: output path -> file_deps_info of the last record
    tx_open,        \* a transaction on env.db is open
    \* ---- compile_all
    main_pc,        \* position of the thread that called compile_all
    each_realized,  \* the jobs that passed the should_compile filter
    all_new_deps,   \* accumulated file_deps_info
    deps_mut,       \* compile_all's std::mutex guarding all_new_deps
    okay,           \* the value parallel_run returned
    upd,            \* index of the next record update_deps_info writes
    result,         \* how the last compile_all call ended
    \* ---- parallel_run
    mut,            \* parallel_run's std::mutex: "none", "main" or a worker
    iter,           \* the shared cursor (index into each_realized)
    exceptions,     \* std::vector<std::exception_ptr>
    n_jobs,         \* the number of threads, after the default is applied
    threads,        \* number of std::threads created so far
    joined,         \* number of threads joined so far
    wpc,            \* per worker: position inside run_one
    witem,          \* per worker: the job it holds
    wdep,           \* per worker: the optional<file_deps_info> of do_compile
    logged,         \* what parallel_run wrote with spdlog::error
    \* ---- observation of the run
    n_builds,       \* calls of compile_all so far
    spawned,        \* jobs for which run_proc was called in this build
    dirty,          \* what changed on disk since the last build ended
    last_all,       \* the last build compiled every job, and all succeeded
    last_recorded,  \* jobs for which the last build wrote a record
    handed,         \* per job: how often run_one passed it to fn in this build
    returned,       \* the file_deps_info values do_compile returned in this build
    db_before       \* env.db as it was when compile_all was called

buildVars == <<deps_mode, parallel_jobs, flags, mtime, objfile, now, db, tx_open,
               main_pc, each_realized, all_new_deps, deps_mut, okay, upd, result,
               mut, iter, exceptions, n_jobs, threads, joined, wpc, witem, wdep,
               logged, n_builds, spawned, dirty, last_all, last_recorded, handed,
               returned, db_before>>

lifeVars == <<dds_cat_meta, tables_exist, handle, n_opens, migrations>>

catVars == <<dds_cat_pkgs, dds_cat_pkg_deps, sqlite_sequence, cat_result, n_ops, stored,
             lifeVars>>

manVars == <<man_input, man_result>>

\* what neither a build nor the catalog touches
cliVars == <<cli_pc, cli_cmd, cli_ret, cli_exc, exit_code>>

idVars == <<id_lhs, id_rhs, id_text, id_parsed, id_cmp>>

repoVars == <<repo_lock, repo_dirs, tmp_sdist, proc_pc, proc_cmd, proc_sdist,
              proc_status, proc_deps, proc_bd>>

solveVars == <<sol_cat, sol_roots, sol_results>>

archiveVars == <<ar_inputs, ar_file, ar_dir, ar_pc, ar_res, ar_exc, n_archives>>

compileVars == <<dc_input, dc_result>>

stepVars == <<solveVars, archiveVars, compileVars>>

otherVars == <<manVars, cliVars, idVars, repoVars, stepVars>>

vars == <<buildVars, catVars, otherVars>>

(***************************************************************************)
(* should_compile                                                           *)
(***************************************************************************)
\* get_rebuild_info: the previous command and the inputs newer than the output
GetRebuildInfo(database, files, objs, output) ==
    LET rec == database[output]
    IN  [previous_command |-> rec.command,
         newer_inputs |-> SelectSeq(rec.inputs,
                             LAMBDA f : files[f] > objs[output].mtime)]

\* should_compile without the comparison of the command strings
ShouldCompile_NoCommandCheck(j, database, files, objs, fl) ==
    IF ~objs[ObjectFilePath(j)].exists THEN TRUE
    ELSE LET rb_info == GetRebuildInfo(database, files, objs, ObjectFilePath(j))
         IN  IF rb_info.previous_command = "" THEN TRUE
             ELSE IF rb_info.newer_inputs # <<>> THEN TRUE
             ELSE FALSE

\* should_compile without the test of newer_inputs
ShouldCompile_NoNewerCheck(j, database, files, objs, fl) ==
    IF ~objs[ObjectFilePath(j)].exists THEN TRUE
    ELSE LET rb_info == GetRebuildInfo(database, files, objs, ObjectFilePath(j))
         IN  IF rb_info.previous_command = "" THEN TRUE
             ELSE IF QuoteCommand(GenerateCompileCommand(j, fl))
                        # rb_info.previous_command THEN TRUE
             ELSE FALSE

ShouldCompile(j, database, files, objs, fl) ==
    IF ~objs[ObjectFilePath(j)].exists THEN TRUE
    ELSE LET rb_info == GetRebuildInfo(database, files, objs, ObjectFilePath(j))
         IN  IF rb_info.previous_command = "" THEN TRUE
             ELSE IF rb_info.newer_inputs # <<>> THEN TRUE
             ELSE IF QuoteCommand(GenerateCompileCommand(j, fl))
                        # rb_info.previous_command THEN TRUE
             ELSE FALSE

(***************************************************************************)
(* do_compile                                                               *)
(***************************************************************************)
\* what the compiler prints: in msvc mode the file name and one
\* "Note: including file:" line per header; a failing compile prints an error
CompilerOutput(j, mode, compiled_okay) ==
    (IF mode = "msvc"
        THEN <<[note |-> FALSE, text |-> j]>>
             \o [i \in 1..Len(Includes(j)) |-> [note |-> TRUE, text |-> Includes(j)[i]]]
        ELSE <<>>)
    \o (IF compiled_okay THEN <<>> ELSE <<[note |-> FALSE, text |-> "error"]>>)

\* parse_msvc_output_for_deps
ParseMsvcOutputForDeps(output) ==
    LET notes == SelectSeq(output, LAMBDA l : l.note)
    IN  [inputs |-> [i \in 1..Len(notes) |-> notes[i].text],
         cleaned_output |-> SelectSeq(output, LAMBDA l : ~l.note)]

\* parse_mkfile_deps_file: the inputs the depfile lists (source first)
ParseMkfileDepsFile(j) == <<j>> \o Includes(j)

NoDeps == [has |-> FALSE]

\* do_compile leaving the command of the record unset
RetDepsInfo_NoCommand(j, mode, fl, compiled_okay, depfile_exists) ==
    IF mode = "gnu" /\ depfile_exists
    THEN [has |-> TRUE, output |-> ObjectFilePath(j),
          inputs |-> ParseMkfileDepsFile(j),
          command |-> "", command_output |-> <<>>]
    ELSE NoDeps

\* do_compile without the push_back of the source file in msvc mode
RetDepsInfo_NoSource(j, mode, fl, compiled_okay, depfile_exists) ==
    LET compiler_output == CompilerOutput(j, mode, compiled_okay)
        command == QuoteCommand(GenerateCompileCommand(j, fl))
    IN  IF mode = "gnu"
        THEN IF ~depfile_exists THEN NoDeps
             ELSE [has |-> TRUE, output |-> ObjectFilePath(j),
                   inputs |-> ParseMkfileDepsFile(j),
                   command |-> command, command_output |-> compiler_output]
        ELSE IF mode = "msvc"
        THEN LET msvc_deps == ParseMsvcOutputForDeps(compiler_output)
             IN  IF msvc_deps.inputs # <<>>
                 THEN [has |-> TRUE, output |-> ObjectFilePath(j),
                       inputs |-> msvc_deps.inputs,
                       command |-> command,
                       command_output |-> msvc_deps.cleaned_output]
                 ELSE NoDeps
        ELSE NoDeps

\* the optional<file_deps_info> do_compile builds (ret_deps_info)
RetDepsInfo(j, mode, fl, compiled_okay, depfile_exists) ==
    LET compiler_output == CompilerOutput(j, mode, compiled_okay)
        command == QuoteCommand(GenerateCompileCommand(j, fl))
    IN  IF mode = "gnu"
        THEN IF ~depfile_exists THEN NoDeps
             ELSE [has |-> TRUE, output |-> ObjectFilePath(j),
                   inputs |-> ParseMkfileDepsFile(j),
                   command |-> command, command_output |-> compiler_output]
        ELSE IF mode = "msvc"
        THEN LET msvc_deps == ParseMsvcOutputForDeps(compiler_output)
             IN  IF msvc_deps.inputs # <<>>
                 THEN [has |-> TRUE, output |-> ObjectFilePath(j),
                       inputs |-> Append(msvc_deps.inputs, j),
                       command |-> command,
                       command_output |-> msvc_deps.cleaned_output]
                 ELSE NoDeps
        ELSE NoDeps

(***************************************************************************)
(* Initial state: nothing built, empty dep-db                               *)
(***************************************************************************)
InitBuildVars ==
    /\ deps_mode \in DepsModes
    /\ parallel_jobs \in ParallelJobsInputs
    /\ flags = <<"-c">>
    /\ mtime = [f \in InputFiles |-> 0]
    /\ objfile = [o \in Objects |-> [exists |-> FALSE, mtime |-> 0]]
    /\ now = 0
    /\ db = [o \in Objects |-> NoRecord]
    /\ tx_open = FALSE
    /\ main_pc = "idle"
    /\ each_realized = <<>>
    /\ all_new_deps = <<>>
    /\ deps_mut = "none"
    /\ okay = TRUE
    /\ upd = 1
    /\ result = [kind |-> "none"]
    /\ mut = "none"
    /\ iter = 1
    /\ exceptions = <<>>
    /\ n_jobs = 0
    /\ threads = 0
    /\ joined = 0
    /\ wpc = [w \in Workers |-> "nothread"]
    /\ witem = [w \in Workers |-> "none"]
    /\ wdep = [w \in Workers |-> NoDeps]
    /\ logged = <<>>
    /\ n_builds = 0
    /\ spawned = {}
    /\ dirty = {}
    /\ last_all = FALSE
    /\ last_recorded = {}
    /\ handed = [j \in Jobs |-> 0]
    /\ returned = {}
    /\ db_before = [o \in Objects |-> NoRecord]

\* the text of the one row of dds_cat_meta, as far as ensure_migrated looks
\* at it: "absent" (no such table), "not_json" (json::parse throws),
\* "not_object", "bad_version" (an object whose "version" is no integer),
\* "ok" (an object with the integer version given)
Meta(kind, version) == [kind |-> kind, version |-> version]

\* the catalog after catalog::open on a new database (migrate_repodb_1)
InitCatalog ==
    /\ dds_cat_meta = Meta("ok", 1)
    /\ tables_exist = TRUE
    /\ handle = "open"
    /\ n_opens = 1
    /\ migrations = 1
    /\ dds_cat_pkgs = {}
    /\ dds_cat_pkg_deps = {}
    /\ sqlite_sequence = [dds_cat_pkgs |-> 0, dds_cat_pkg_deps |-> 0]
    /\ cat_result = [op |-> "open", status |-> "ok"]
    /\ n_ops = 0
    /\ stored = [id \in PackageIds |-> NoPackage]

\* no manifest has been loaded
InitManifest ==
    /\ man_input = [loader |-> "none"]
    /\ man_result = [ok |-> FALSE, err |-> "not_loaded"]

\* an exception object: its class and, for the dds errors, the errc
Exc(class, errc) == [class |-> class, errc |-> errc]

NoExc == Exc("none", "none")

\* main has not run
InitMain ==
    /\ cli_pc = "start"
    /\ cli_cmd = "none"
    /\ cli_ret = 0
    /\ cli_exc = NoExc
    /\ exit_code = 0 - 1

\* package_id() = default: a blank name and the default version
DefaultPackageId == [name |-> "", version |-> <<0, 0, 0>>]

NotCompared == [done |-> FALSE, lt |-> FALSE, eq |-> FALSE, gt |-> FALSE]

\* no package_id has been looked at
InitId ==
    /\ id_lhs = DefaultPackageId
    /\ id_rhs = DefaultPackageId
    /\ id_text = <<>>
    /\ id_parsed = [ok |-> FALSE, id |-> DefaultPackageId]
    /\ id_cmp = NotCompared

\* the processes that use one repository directory
Procs == {"p1", "p2", "p3"}

\* the projects that are exported, each with the id its manifest declares
Projects == {"projA", "projB"}

ProjectId(project) == IF project = "projA" THEN "a@1.0.0" ELSE "b@1.0.0"

\* the subdirectories a repository may have
RepoDirNames == {"a@1.0.0", "b@1.0.0", "dep@1.0.0"}

\* a directory that does not exist
Absent == [exists |-> FALSE, pkg_id |-> "", tree |-> ""]

\* a complete sdist: the id in its manifest and the tree it was copied from
SdistTree(pkg_id, tree) == [exists |-> TRUE, pkg_id |-> pkg_id, tree |-> tree]

\* no in-memory sdist
NoSdist == [manifest |-> "", path |-> ""]

\* the commands of main that reach the repository
RepoCmds ==
    {[kind |-> "repo ls", project |-> "", force |-> FALSE],
     [kind |-> "repo init", project |-> "", force |-> FALSE],
     [kind |-> "build", project |-> "", force |-> FALSE],
     [kind |-> "build-deps", project |-> "", force |-> FALSE]}
    \cup {[kind |-> "sdist export", project |-> pr, force |-> f] :
              pr \in Projects, f \in BOOLEAN}

\* an empty repository that no process uses
InitRepo ==
    /\ repo_lock = [p \in Procs |-> "none"]
    /\ repo_dirs = [d \in RepoDirNames |-> Absent]
    /\ tmp_sdist = Absent
    /\ proc_pc = [p \in Procs |-> "done"]
    /\ proc_cmd = [p \in Procs |-> [kind |-> "none", project |-> "", force |-> FALSE]]
    /\ proc_sdist = [p \in Procs |-> NoSdist]
    /\ proc_status = [p \in Procs |-> "ok"]
    /\ proc_deps = [p \in Procs |-> <<>>]
    /\ proc_bd = [p \in Procs |-> <<>>]

\* an empty database with its counters
EmptyTables == [pkgs |-> {}, deps |-> {},
                seq |-> [dds_cat_pkgs |-> 0, dds_cat_pkg_deps |-> 0]]

\* solve has not been called
InitSolve ==
    /\ sol_cat = EmptyTables
    /\ sol_roots = <<>>
    /\ sol_results = <<>>

\* a proc_result: exit code and signal
ProcResult(retc, signal) == [retc |-> retc, signal |-> signal]

\* archive() has not been called, nothing is on disk
InitArchive ==
    /\ ar_inputs = <<>>
    /\ ar_file = "absent"
    /\ ar_dir = FALSE
    /\ ar_pc = "idle"
    /\ ar_res = ProcResult(0, 0)
    /\ ar_exc = NoExc
    /\ n_archives = 0

\* do_compile has not been called
NotCompiled == [done |-> FALSE]

InitCompile ==
    /\ dc_input = [job |-> "none"]
    /\ dc_result = NotCompiled

InitStep == InitSolve /\ InitArchive /\ InitCompile

InitOther == InitManifest /\ InitMain /\ InitId /\ InitRepo /\ InitStep

(***************************************************************************)
(* The environment: edits between builds                                    *)
(***************************************************************************)
envVars == <<deps_mode, parallel_jobs>>
runVars == <<mut, iter, exceptions, n_jobs, threads, joined, wpc, witem, wdep>>
callVars == <<each_realized, all_new_deps, deps_mut, okay, upd, result, logged>>
obsVars == <<n_builds, spawned, last_all, last_recorded, handed, returned, db_before>>

\* a developer saves an input file
Touch(f) ==
    /\ main_pc = "idle"
    /\ now < MaxTime
    /\ now' = now + 1
    /\ mtime' = [mtime EXCEPT ![f] = now + 1]
    /\ dirty' = dirty \cup {f}
    /\ UNCHANGED <<catVars, otherVars, envVars, flags, objfile, db, tx_open, main_pc, runVars, callVars, obsVars>>

\* the toolchain's flags are changed
ChangeFlags(fl) ==
    /\ main_pc = "idle"
    /\ now < MaxTime
    /\ fl # flags
    /\ flags' = fl
    /\ now' = now + 1
    /\ dirty' = dirty \cup {"flags"}
    /\ UNCHANGED <<catVars, otherVars, envVars, mtime, objfile, db, tx_open, main_pc, runVars, callVars, obsVars>>

(***************************************************************************)
(* compile_all, main thread                                                 *)
(***************************************************************************)
\* lines 238-251 and parallel_run lines 27-60: realise and filter the plans,
\* set up the locals, take the mutex, apply the default thread count
\* the thread count with the njobs argument ignored
NJobsDefaulted_IgnoreArg(n) == HardwareConcurrency + 2

NJobsDefaulted(n) == IF n < 1 THEN HardwareConcurrency + 2 ELSE n

CompileAllStart ==
    /\ main_pc = "idle"
    /\ n_builds < MaxBuilds
    /\ n_builds' = n_builds + 1
    /\ each_realized' = SelectSeq(Compiles,
                            LAMBDA j : ShouldCompile(j, db, mtime, objfile, flags))
    /\ all_new_deps' = <<>>
    /\ deps_mut' = "none"
    /\ mut' = "main"
    /\ iter' = 1
    /\ exceptions' = <<>>
    /\ n_jobs' = NJobsDefaulted(parallel_jobs)
    /\ threads' = 0
    /\ joined' = 0
    /\ wpc' = [w \in Workers |-> "nothread"]
    /\ witem' = [w \in Workers |-> "none"]
    /\ wdep' = [w \in Workers |-> NoDeps]
    /\ spawned' = {}
    /\ handed' = [j \in Jobs |-> 0]
    /\ returned' = {}
    /\ db_before' = db
    /\ main_pc' = "spawn"
    /\ UNCHANGED <<catVars, otherVars, envVars, flags, mtime, objfile, now, db, tx_open, okay, upd,
                   result, logged, dirty, last_all, last_recorded>>

\* line 61: std::generate_n creates one std::thread(run_one)
SpawnThread ==
    /\ main_pc = "spawn"
    /\ threads < n_jobs
    /\ threads' = threads + 1
    /\ wpc' = [wpc EXCEPT ![ThreadIds[threads + 1]] = "loop"]
    /\ UNCHANGED <<catVars, otherVars, envVars, flags, mtime, objfile, now, db, tx_open, main_pc,
                   callVars, mut, iter, exceptions, n_jobs, joined, witem, wdep,
                   obsVars, dirty>>

\* line 62: lk.unlock()
SpawnUnlock ==
    /\ main_pc = "spawn"
    /\ threads = n_jobs
    /\ mut = "main"
    /\ mut' = "none"
    /\ main_pc' = "join"
    /\ UNCHANGED <<catVars, otherVars, envVars, flags, mtime, objfile, now, db, tx_open, callVars,
                   iter, exceptions, n_jobs, threads, joined, wpc, witem, wdep,
                   obsVars, dirty>>

\* lines 63-65: t.join() for the next thread, in creation order
JoinThread ==
    /\ main_pc = "join"
    /\ joined < n_jobs
    /\ wpc[ThreadIds[joined + 1]] = "done"
    /\ joined' = joined + 1
    /\ UNCHANGED <<catVars, otherVars, envVars, flags, mtime, objfile, now, db, tx_open, main_pc,
                   callVars, mut, iter, exceptions, n_jobs, threads, wpc, witem,
                   wdep, obsVars, dirty>>

\* lines 66-72: what the loop over the exceptions logs, in order
LogExceptions(excs) == excs

\* parallel_run reporting success whatever was recorded
ExceptionsEmpty_Always(excs) == TRUE

\* line 73: exceptions.empty()
ExceptionsEmpty(excs) == excs = <<>>

\* parallel_run going on without joining its threads
AllJoined_NoWait(j, n) == TRUE

\* lines 63-65: every std::thread of the vector has been joined
AllJoined(j, n) == j = n

\* lines 66-73: every recorded exception is rethrown inside a try block whose
\* handler logs e.what(); the function returns exceptions.empty()
ParallelRunReturn ==
    /\ main_pc = "join"
    /\ AllJoined(joined, n_jobs)
    /\ logged' = LogExceptions(exceptions)
    /\ okay' = ExceptionsEmpty(exceptions)
    /\ main_pc' = "tr"
    /\ UNCHANGED <<catVars, otherVars, envVars, flags, mtime, objfile, now, db, tx_open, each_realized,
                   all_new_deps, deps_mut, upd, result, runVars, obsVars, dirty>>

\* line 266: auto tr = env.db.transaction()
TxBegin ==
    /\ main_pc = "tr"
    /\ tx_open' = TRUE
    /\ upd' = 1
    /\ main_pc' = "update"
    /\ UNCHANGED <<catVars, otherVars, envVars, flags, mtime, objfile, now, db, each_realized,
                   all_new_deps, deps_mut, okay, result, logged, runVars, obsVars,
                   dirty>>

\* an update_deps_info that writes nothing
UpdateDepsInfoDb_Skip(database, info) == database

\* update_deps_info: the record of info.output is replaced
UpdateDepsInfoDb(database, info) ==
    [database EXCEPT ![info.output] =
        [command |-> info.command, inputs |-> info.inputs,
         command_output |-> info.command_output]]

\* lines 267-269: one update_deps_info call
UpdateDepsInfo ==
    /\ main_pc = "update"
    /\ upd <= Len(all_new_deps)
    /\ db' = UpdateDepsInfoDb(db, all_new_deps[upd])
    /\ upd' = upd + 1
    /\ UNCHANGED <<catVars, otherVars, envVars, flags, mtime, objfile, now, tx_open, main_pc,
                   each_realized, all_new_deps, deps_mut, okay, result, logged,
                   runVars, obsVars, dirty>>

\* lines 271-273: return okay; the transaction guard commits and the locals
\* of the call go out of scope
CompileAllReturn ==
    /\ main_pc = "update"
    /\ upd > Len(all_new_deps)
    /\ tx_open' = FALSE
    /\ result' = [kind |-> "return", value |-> okay]
    /\ main_pc' = "idle"
    /\ dirty' = {}
    /\ each_realized' = <<>>
    /\ all_new_deps' = <<>>
    /\ upd' = 1
    /\ last_all' = (okay /\ {each_realized[i] : i \in 1..Len(each_realized)} = Jobs)
    /\ last_recorded' = {j \in Jobs : \E i \in 1..Len(all_new_deps) :
                                        all_new_deps[i].output = ObjectFilePath(j)}
    /\ iter' = 1
    /\ exceptions' = <<>>
    /\ n_jobs' = 0
    /\ threads' = 0
    /\ joined' = 0
    /\ wpc' = [w \in Workers |-> "nothread"]
    /\ witem' = [w \in Workers |-> "none"]
    /\ wdep' = [w \in Workers |-> NoDeps]
    /\ spawned' = {}
    /\ handed' = [j \in Jobs |-> 0]
    /\ returned' = {}
    /\ db_before' = db
    /\ UNCHANGED <<catVars, otherVars, envVars, flags, mtime, objfile, now, db, deps_mut, okay, mut,
                   logged, n_builds>>

(***************************************************************************)
(* run_one, the body of every worker thread                                 *)
(***************************************************************************)
\* a mutex that is never granted
CanLock_Never(m) == FALSE

\* std::unique_lock's constructor and lock() block until the mutex is free
CanLock(m) == m = "none"

\* run_one without the check of the latch
LatchSet_Never(excs) == FALSE

\* line 37: the error latch, !exceptions.empty()
LatchSet(excs) == excs # <<>>

\* line 40: iter == stop
AtStop(it, rng) == it = Len(rng) + 1

\* a cursor that stays where it is
NextIter_Stay(it) == it

\* line 44: ++iter
NextIter(it) == it + 1

\* line 36: std::unique_lock lk{mut}
WorkerLock(w) ==
    /\ wpc[w] = "loop"
    /\ CanLock(mut)
    /\ mut' = w
    /\ wpc' = [wpc EXCEPT ![w] = "locked"]
    /\ UNCHANGED <<catVars, otherVars, envVars, flags, mtime, objfile, now, db, tx_open, main_pc,
                   callVars, iter, exceptions, n_jobs, threads, joined, witem,
                   wdep, obsVars, dirty>>

\* lines 37-45: leave the loop when the latch is set or the range is done,
\* otherwise take the item under the cursor, advance it and unlock
WorkerTake(w) ==
    /\ wpc[w] = "locked"
    /\ mut' = "none"
    /\ IF LatchSet(exceptions) \/ AtStop(iter, each_realized)
       THEN /\ wpc' = [wpc EXCEPT ![w] = "done"]
            /\ UNCHANGED <<iter, witem, handed>>
       ELSE /\ witem' = [witem EXCEPT ![w] = each_realized[iter]]
            /\ iter' = NextIter(iter)
            /\ handed' = [handed EXCEPT ![each_realized[iter]] = @ + 1]
            /\ wpc' = [wpc EXCEPT ![w] = "run"]
    /\ UNCHANGED <<catVars, otherVars, envVars, flags, mtime, objfile, now, db, tx_open, main_pc,
                   callVars, exceptions, n_jobs, threads, joined, wdep, n_builds,
                   spawned, last_all, last_recorded, returned, db_before, dirty>>


\* do_compile lines 100-111: run_proc starts the compiler
RunProc(w) ==
    /\ wpc[w] = "run"
    /\ wpc' = [wpc EXCEPT ![w] = "compiling"]
    /\ spawned' = spawned \cup {witem[w]}
    /\ UNCHANGED <<catVars, otherVars, envVars, flags, mtime, objfile, now, db, tx_open, main_pc,
                   callVars, mut, iter, exceptions, n_jobs, threads, joined,
                   witem, wdep, n_builds, last_all, last_recorded, handed,
                   returned, db_before, dirty>>

\* do_compile lines 111-198: the compiler exits; on success the object file is
\* written and the deps are returned, on failure compile_failure is thrown
ProcExit(w, compiled_okay, depfile_exists) ==
    /\ wpc[w] = "compiling"
    /\ (deps_mode # "gnu" => depfile_exists)
    /\ LET j == witem[w]
           ret == RetDepsInfo(j, deps_mode, flags, compiled_okay, depfile_exists)
       IN  IF compiled_okay
           THEN /\ objfile' = [objfile EXCEPT ![ObjectFilePath(j)] =
                                   [exists |-> TRUE, mtime |-> now]]
                /\ wdep' = [wdep EXCEPT ![w] = ret]
                /\ returned' = IF ret.has THEN returned \cup {ret} ELSE returned
                /\ wpc' = [wpc EXCEPT ![w] = IF ret.has THEN "deps_lock" ELSE "loop"]
           ELSE /\ wpc' = [wpc EXCEPT ![w] = "catch"]
                /\ UNCHANGED <<objfile, wdep, returned>>
    /\ UNCHANGED <<catVars, otherVars, envVars, flags, mtime, now, db, tx_open, main_pc, callVars,
                   mut, iter, exceptions, n_jobs, threads, joined, witem,
                   n_builds, spawned, last_all, last_recorded, handed, db_before,
                   dirty>>

\* compile_all line 260: std::unique_lock lk{mut}
DepsLock(w) ==
    /\ wpc[w] = "deps_lock"
    /\ CanLock(deps_mut)
    /\ deps_mut' = w
    /\ wpc' = [wpc EXCEPT ![w] = "deps_push"]
    /\ UNCHANGED <<catVars, otherVars, envVars, flags, mtime, objfile, now, db, tx_open, main_pc,
                   each_realized, all_new_deps, okay, upd, result, logged, mut,
                   iter, exceptions, n_jobs, threads, joined, witem, wdep,
                   obsVars, dirty>>

\* compile_all lines 261-262: push_back, the lock is released at scope exit
DepsPush(w) ==
    /\ wpc[w] = "deps_push"
    /\ all_new_deps' = Append(all_new_deps, wdep[w])
    /\ deps_mut' = "none"
    /\ wpc' = [wpc EXCEPT ![w] = "loop"]
    /\ UNCHANGED <<catVars, otherVars, envVars, flags, mtime, objfile, now, db, tx_open, main_pc,
                   each_realized, okay, upd, result, logged, mut, iter, exceptions,
                   n_jobs, threads, joined, witem, wdep, obsVars, dirty>>

\* lines 48-52: lk.lock(), record the exception, leave the loop
CatchRecord(w) ==
    /\ wpc[w] = "catch"
    /\ CanLock(mut)
    /\ exceptions' = Append(exceptions, [kind |-> "compile_failure", source |-> witem[w]])
    /\ wpc' = [wpc EXCEPT ![w] = "done"]
    /\ UNCHANGED <<catVars, otherVars, envVars, flags, mtime, objfile, now, db, tx_open, main_pc,
                   callVars, mut, iter, n_jobs, threads, joined, witem, wdep,
                   obsVars, dirty>>

NextBuild ==
    \/ \E f \in InputFiles : Touch(f)
    \/ \E fl \in FlagSets : ChangeFlags(fl)
    \/ CompileAllStart
    \/ SpawnThread
    \/ SpawnUnlock
    \/ JoinThread
    \/ ParallelRunReturn
    \/ TxBegin
    \/ UpdateDepsInfo
    \/ CompileAllReturn
    \/ \E w \in Workers : WorkerLock(w)
    \/ \E w \in Workers : WorkerTake(w)
    \/ \E w \in Workers : RunProc(w)
    \/ \E w \in Workers, ok \in BOOLEAN, df \in BOOLEAN : ProcExit(w, ok, df)
    \/ \E w \in Workers : DepsLock(w)
    \/ \E w \in Workers : DepsPush(w)
    \/ \E w \in Workers : CatchRecord(w)

InitBuild == InitBuildVars /\ InitCatalog /\ InitOther

SpecBuild == InitBuild /\ [][NextBuild]_vars

\* builds of an unchanged project, one after the other
NextRun ==
    \/ CompileAllStart
    \/ SpawnThread
    \/ SpawnUnlock
    \/ JoinThread
    \/ ParallelRunReturn
    \/ TxBegin
    \/ UpdateDepsInfo
    \/ CompileAllReturn
    \/ \E w \in Workers : WorkerLock(w)
    \/ \E w \in Workers : WorkerTake(w)
    \/ \E w \in Workers : RunProc(w)
    \/ \E w \in Workers, ok \in BOOLEAN, df \in BOOLEAN : ProcExit(w, ok, df)
    \/ \E w \in Workers : DepsLock(w)
    \/ \E w \in Workers : DepsPush(w)
    \/ \E w \in Workers : CatchRecord(w)

\* the scheduler lets every thread that can take a step take one in the
\* end, and every compiler subprocess exits
FairRun ==
    /\ WF_vars(SpawnThread)
    /\ WF_vars(SpawnUnlock)
    /\ WF_vars(JoinThread)
    /\ WF_vars(ParallelRunReturn)
    /\ \A w \in Workers :
          /\ WF_vars(WorkerLock(w))
          /\ WF_vars(WorkerTake(w))
          /\ WF_vars(RunProc(w))
          /\ WF_vars(\E ok \in BOOLEAN, df \in BOOLEAN : ProcExit(w, ok, df))
          /\ WF_vars(DepsLock(w))
          /\ WF_vars(DepsPush(w))
          /\ WF_vars(CatchRecord(w))

SpecRun == InitBuild /\ [][NextRun]_vars /\ FairRun

(***************************************************************************)
(* The catalog: catalog::store                                              *)
(***************************************************************************)
\* the database as one value: the two tables and the AUTOINCREMENT counters
Tables == [pkgs |-> dds_cat_pkgs, deps |-> dds_cat_pkg_deps, seq |-> sqlite_sequence]

\* a nullable TEXT column is a sequence of at most one string
Null == <<>>

\* CASE WHEN ? = '' THEN NULL ELSE ? END
NullIfEmpty(str) == IF str = "" THEN Null ELSE <<str>>

\* CONSTRAINT has_source_info
HasSourceInfo(row) == row.git_url # Null /\ row.git_ref # Null

\* CONSTRAINT valid_lm_info: both columns set or both NULL
ValidLmInfo(row) ==
    \/ (row.lm_name # Null /\ row.lm_namespace # Null)
    \/ (row.lm_name = Null /\ row.lm_namespace = Null)

\* the rowid an INSERT into an AUTOINCREMENT table is given
NextRowId(seq) == seq + 1

\* the row _store_pkg binds; auto_lib.value_or(lm::usage{}) gives two empty
\* strings for an absent auto_lib
PkgRow(pkg, rowid) ==
    LET lm_usage == IF pkg.remote.auto_lib = <<>>
                       THEN [namespace_ |-> "", name |-> ""]
                       ELSE pkg.remote.auto_lib[1]
    IN  [pkg_id |-> rowid,
         name |-> pkg.ident.name,
         version |-> VersionToString(pkg.ident.version),
         git_url |-> <<pkg.remote.url>>,
         git_ref |-> <<pkg.remote.ref>>,
         lm_name |-> NullIfEmpty(lm_usage.name),
         lm_namespace |-> NullIfEmpty(lm_usage.namespace_),
         description |-> pkg.description]

\* a plain INSERT that deletes nothing
Conflicting_None(row, pkgs) == {}

\* the rows INSERT OR REPLACE deletes: those with the new row's (name, version)
Conflicting(row, pkgs) == {r \in pkgs : r.name = row.name /\ r.version = row.version}

\* _store_pkg: INSERT OR REPLACE INTO dds_cat_pkgs. A CHECK violation aborts
\* the statement; a row with the same (name, version) is deleted and the new
\* row is inserted under a new pkg_id. Foreign keys are not enforced (the
\* PRAGMA of ensure_migrated runs inside the open transaction, where it has
\* no effect), so the dependency rows of a deleted row stay behind.
StorePkg(pkg, t) ==
    LET rowid == NextRowId(t.seq.dds_cat_pkgs)
        row == PkgRow(pkg, rowid)
    IN  IF ~(HasSourceInfo(row) /\ ValidLmInfo(row))
        THEN [ok |-> FALSE, t |-> t, rowid |-> 0]
        ELSE [ok |-> TRUE,
              t |-> [t EXCEPT
                       !.pkgs = (t.pkgs \ Conflicting(row, t.pkgs)) \cup {row},
                       !.seq.dds_cat_pkgs = rowid],
              rowid |-> rowid]

\* one INSERT INTO dds_cat_pkg_deps; UNIQUE(pkg_id, dep_name) aborts it
InsertDep(dep, db_pkg_id, t) ==
    IF \E d \in t.deps : d.pkg_id = db_pkg_id /\ d.dep_name = dep.name
    THEN [ok |-> FALSE, t |-> t]
    ELSE LET rowid == NextRowId(t.seq.dds_cat_pkg_deps)
         IN  [ok |-> TRUE,
              t |-> [t EXCEPT
                       !.deps = t.deps \cup {[dep_id |-> rowid,
                                              pkg_id |-> db_pkg_id,
                                              dep_name |-> dep.name,
                                              low |-> VersionToString(dep.low),
                                              high |-> VersionToString(dep.high)]},
                       !.seq.dds_cat_pkg_deps = rowid]]

\* the loop over pkg.deps, stopping at the first insert that throws
RECURSIVE InsertDeps(_, _, _)
InsertDeps(deps, db_pkg_id, t) ==
    IF deps = <<>> THEN [ok |-> TRUE, t |-> t]
    ELSE LET r == InsertDep(Head(deps), db_pkg_id, t)
         IN  IF r.ok THEN InsertDeps(Tail(deps), db_pkg_id, r.t) ELSE r

\* a guard that never rolls back
TransactionGuard_NoRollback(before, outcome) == outcome

\* sqlite3::transaction_guard: the changes made under the guard are kept
\* when the scope is left normally and undone when it is left by an exception
TransactionGuard(before, outcome) ==
    IF outcome.ok THEN outcome ELSE [outcome EXCEPT !.t = before]

\* catalog::store on database t: the new database, or the error
Store(pkg, t) ==
    LET stored_pkg == StorePkg(pkg, t)
        body == IF ~stored_pkg.ok
                   THEN [ok |-> FALSE, t |-> stored_pkg.t, err |-> "sqlite3_error"]
                   ELSE LET r == InsertDeps(pkg.deps, stored_pkg.rowid, stored_pkg.t)
                        IN  [ok |-> r.ok, t |-> r.t,
                             err |-> IF r.ok THEN "none" ELSE "sqlite3_error"]
    IN  TransactionGuard(t, body)

\* the package_info values an outcome leaves as "last stored"
StoredAfter(before, pkg, outcome) ==
    IF outcome.ok THEN [before EXCEPT ![pkg.ident] = pkg] ELSE before

CatalogStore(pkg) ==
    /\ handle = "open"
    /\ n_ops < MaxOps
    /\ LET r == Store(pkg, Tables)
       IN  /\ dds_cat_pkgs' = r.t.pkgs
           /\ dds_cat_pkg_deps' = r.t.deps
           /\ sqlite_sequence' = r.t.seq
           /\ stored' = StoredAfter(stored, pkg, r)
           /\ cat_result' = [op |-> "store", status |-> IF r.ok THEN "ok" ELSE r.err]
    /\ n_ops' = n_ops + 1
    /\ UNCHANGED <<buildVars, lifeVars, otherVars>>

(***************************************************************************)
(* catalog::dependencies_of and catalog::get                                *)
(***************************************************************************)
\* the rows in insertion order, without ORDER BY
RECURSIVE OrderByDepName_ByRowId(_)
OrderByDepName_ByRowId(rows) ==
    IF rows = {} THEN <<>>
    ELSE LET first == CHOOSE r \in rows : \A q \in rows : r.dep_id <= q.dep_id
         IN  <<first>> \o OrderByDepName_ByRowId(rows \ {first})

\* ORDER BY dep_name
RECURSIVE OrderByDepName(_)
OrderByDepName(rows) ==
    IF rows = {} THEN <<>>
    ELSE LET first == CHOOSE r \in rows : \A q \in rows :
                          \/ DepNameRank(r.dep_name) < DepNameRank(q.dep_name)
                          \/ (r.dep_name = q.dep_name /\ r.dep_id <= q.dep_id)
         IN  <<first>> \o OrderByDepName(rows \ {first})

DependenciesOf(pkg, t) ==
    LET this_pkg_id == {r.pkg_id : r \in {r \in t.pkgs :
                            r.name = pkg.name /\ r.version = VersionToString(pkg.version)}}
        rows == OrderByDepName({d \in t.deps : d.pkg_id \in this_pkg_id})
    IN  [i \in 1..Len(rows) |->
            Dep(rows[i].dep_name, VersionParse(rows[i].low), VersionParse(rows[i].high))]

\* catalog::get: NoPackage stands for std::nullopt
Get(pk_id, t) ==
    LET found == {r \in t.pkgs : r.name = pk_id.name
                                  /\ r.version = VersionToString(pk_id.version)}
    IN  IF found = {} THEN NoPackage
        ELSE LET row == CHOOSE r \in found : TRUE
             IN  PackageInfo(pk_id,
                             DependenciesOf(pk_id, t),
                             row.description,
                             GitRemoteListing(row.git_url[1], row.git_ref[1],
                                 IF row.lm_name # Null
                                    THEN Usage(row.lm_namespace[1], row.lm_name[1])
                                    ELSE <<>>))

CatalogGet(pk_id) ==
    /\ handle = "open"
    /\ cat_result' = [op |-> "get", status |-> "ok", value |-> Get(pk_id, Tables)]
    /\ UNCHANGED <<dds_cat_pkgs, dds_cat_pkg_deps, sqlite_sequence, n_ops, stored>>
    /\ UNCHANGED <<buildVars, lifeVars, otherVars>>

(***************************************************************************)
(* catalog::import_json_str                                                 *)
(***************************************************************************)
\* JSON values, as far as the importer looks at them
JNull == [t |-> "null"]
JStr(v) == [t |-> "string", v |-> v]
JInt(n) == [t |-> "int", n |-> n]
JObj(items) == [t |-> "object", items |-> items]

\* a "depends" member: the dependency name and the range string "^low"
JDep(n, lo) == [name |-> n, value |-> [t |-> "string", caret |-> lo]]

\* a "git" object; the auto-lib string is "<ns>/<name>"
JGit(al) == [t |-> "object", url |-> JStr("u"), ref |-> JStr("r"), auto_lib |-> al,
             unknown_key |-> FALSE]
\* the same object with one more member, under a key the importer never reads
JGitUnknown(al) == [JGit(al) EXCEPT !.unknown_key = TRUE]
JAutoLib(ns, n) == [t |-> "string", ns |-> ns, name |-> n]

\* one /packages/<name>/<version> member of a document
JEntry(n, ver, is_obj, depends, git, desc, unknown) ==
    [name |-> n, version |-> ver, is_object |-> is_obj, depends |-> depends,
     git |-> git, description |-> desc, unknown_key |-> unknown]

EntryA1 == JEntry("a", "1.0.0", TRUE, JObj(<<JDep("x", <<1, 0, 0>>)>>), JGit(JNull),
                  JStr("d1"), FALSE)
EntryA2 == JEntry("a", "2.0.0", TRUE, JNull, JGit(JAutoLib("ns", "n")), JNull, FALSE)
EntryB1 == JEntry("b", "1.0.0", TRUE,
                  JObj(<<JDep("x", <<2, 0, 0>>), JDep("y", <<1, 0, 0>>)>>),
                  JGit(JNull), JStr("d2"), FALSE)
EntryB1NoGit == JEntry("b", "1.0.0", TRUE, JNull, JNull, JStr("d1"), FALSE)
EntryB1NotObject == JEntry("b", "1.0.0", FALSE, JNull, JNull, JNull, FALSE)
EntryB1HalfLib == JEntry("b", "1.0.0", TRUE, JNull, JGit(JAutoLib("ns", "")),
                         JStr("d1"), FALSE)
EntryB1EmptyLib == JEntry("b", "1.0.0", TRUE, JNull, JGit(JAutoLib("", "")),
                          JStr("d1"), FALSE)
EntryB1Unknown == JEntry("b", "1.0.0", TRUE, JNull, JGit(JNull), JStr("d1"), TRUE)
EntryB1BadDesc == JEntry("b", "1.0.0", TRUE, JNull, JGit(JNull), JInt(7), FALSE)
EntryB1GitUnknown == JEntry("b", "1.0.0", TRUE, JNull, JGitUnknown(JNull), JStr("d1"),
                            FALSE)

\* a document: the root, its "version" and "packages" members, and the
\* package versions in the order items() visits them (sorted by key)
JDoc(root_obj, ver, pkgs_obj, unknown, pkgs) ==
    [root_is_object |-> root_obj, version |-> ver, packages_is_object |-> pkgs_obj,
     unknown_key |-> unknown, packages |-> pkgs]

Documents ==
    { JDoc(TRUE, JInt(1), TRUE, FALSE, <<EntryA1, EntryA2, EntryB1>>),
      JDoc(TRUE, JInt(1), TRUE, FALSE, <<EntryA2>>),
      JDoc(TRUE, JInt(1), TRUE, FALSE, <<EntryA1, EntryB1NoGit>>),
      JDoc(TRUE, JInt(1), TRUE, FALSE, <<EntryA2, EntryB1NotObject>>),
      JDoc(TRUE, JInt(1), TRUE, FALSE, <<EntryA1, EntryB1HalfLib>>),
      JDoc(TRUE, JInt(1), TRUE, FALSE, <<EntryA1, EntryB1BadDesc>>),
      JDoc(TRUE, JInt(1), TRUE, FALSE, <<EntryB1EmptyLib>>),
      JDoc(TRUE, JInt(1), TRUE, FALSE, <<EntryB1Unknown>>),
      JDoc(TRUE, JInt(1), TRUE, TRUE, <<EntryA1>>),
      JDoc(TRUE, JInt(2), TRUE, FALSE, <<EntryA1>>),
      JDoc(TRUE, JInt(3), TRUE, FALSE, <<EntryA2, EntryB1>>),
      JDoc(TRUE, JInt(0), TRUE, FALSE, <<EntryA2>>),
      JDoc(TRUE, JInt(1), TRUE, FALSE, <<EntryB1GitUnknown>>),
      JDoc(TRUE, JStr("1"), TRUE, FALSE, <<EntryA1>>),
      JDoc(TRUE, JInt(1), FALSE, FALSE, <<>>),
      JDoc(FALSE, JNull, FALSE, FALSE, <<>>) }

\* semver::range::parse of "^low": [low, next major)
RangeParse(value) == [low |-> value.caret, high |-> <<value.caret[1] + 1, 0, 0>>]

\* lm::split_usage_string: the text before and after the '/'
SplitUsageString(al) == Usage(al.ns, al.name)

\* lines 338-349: the dependencies of the "depends" object
RECURSIVE ImportDeps(_)
ImportDeps(items) ==
    IF items = <<>> THEN [ok |-> TRUE, deps |-> <<>>]
    ELSE IF Head(items).value.t # "string" THEN [ok |-> FALSE, deps |-> <<>>]
    ELSE LET rest == ImportDeps(Tail(items))
             range == RangeParse(Head(items).value)
         IN  [ok |-> rest.ok,
              deps |-> <<Dep(Head(items).name, range.low, range.high)>> \o rest.deps]

\* lines 325-373: the package_info of one entry, or the error that ends the
\* import
EntryInfo(e) ==
    LET fail(kind) == [ok |-> FALSE, err |-> kind, info |-> NoPackage]
        deps == IF e.depends.t = "object" THEN ImportDeps(e.depends.items)
                ELSE [ok |-> e.depends.t = "null", deps |-> <<>>]
    IN  IF ~e.is_object THEN fail("invalid_catalog_json")
        ELSE IF ~deps.ok THEN fail("invalid_catalog_json")
        ELSE IF e.git.t = "null" THEN fail("no_catalog_remote_info")
        ELSE IF e.git.t # "object" THEN fail("invalid_catalog_json")
        ELSE IF e.git.url.t # "string" \/ e.git.ref.t # "string" THEN fail("json_type_error")
        ELSE IF e.description.t \notin {"null", "string"} THEN fail("invalid_catalog_json")
        ELSE [ok |-> TRUE, err |-> "none",
              info |-> PackageInfo(
                  [name |-> e.name, version |-> VersionParse(e.version)],
                  deps.deps,
                  IF e.description.t = "null" THEN "" ELSE e.description.v,
                  GitRemoteListing(e.git.url.v, e.git.ref.v,
                      IF e.git.auto_lib.t = "null" THEN <<>>
                      ELSE SplitUsageString(e.git.auto_lib)))]

\* lines 319-377: the loop over the package versions; infos collects the
\* package_info values stored so far
RECURSIVE ImportPackages(_, _, _)
ImportPackages(entries, t, infos) ==
    IF entries = <<>> THEN [ok |-> TRUE, t |-> t, err |-> "none", infos |-> infos]
    ELSE LET e == EntryInfo(Head(entries))
         IN  IF ~e.ok THEN [ok |-> FALSE, t |-> t, err |-> e.err, infos |-> infos]
             ELSE LET r == Store(e.info, t)
                  IN  IF ~r.ok
                      THEN [ok |-> FALSE, t |-> r.t, err |-> r.err, infos |-> infos]
                      ELSE ImportPackages(Tail(entries), r.t, Append(infos, e.info))

\* a check that accepts every version
VersionKnown_Any(version) == TRUE

\* line 312: version <= 1
VersionKnown(version) == version <= 1

\* lines 304-378; the checks of lines 308-315 come before the transaction
ImportJsonStr(doc, t) ==
    LET fail(kind) == [ok |-> FALSE, t |-> t, err |-> kind, infos |-> <<>>]
    IN  IF ~doc.root_is_object THEN fail("invalid_catalog_json")
        ELSE IF doc.version.t # "int" THEN fail("invalid_catalog_json")
        ELSE IF ~VersionKnown(doc.version.n) THEN fail("invalid_catalog_json")
        ELSE IF ~doc.packages_is_object THEN fail("invalid_catalog_json")
        ELSE TransactionGuard(t, ImportPackages(doc.packages, t, <<>>))

RECURSIVE StoredAfterAll(_, _)
StoredAfterAll(before, infos) ==
    IF infos = <<>> THEN before
    ELSE StoredAfterAll([before EXCEPT ![Head(infos).ident] = Head(infos)], Tail(infos))

CatalogImportJson(doc) ==
    /\ handle = "open"
    /\ n_ops < MaxOps
    /\ LET r == ImportJsonStr(doc, Tables)
       IN  /\ dds_cat_pkgs' = r.t.pkgs
           /\ dds_cat_pkg_deps' = r.t.deps
           /\ sqlite_sequence' = r.t.seq
           /\ stored' = IF r.ok THEN StoredAfterAll(stored, r.infos) ELSE stored
           /\ cat_result' = [op |-> "import", status |-> IF r.ok THEN "ok" ELSE r.err,
                             doc |-> doc]
    /\ n_ops' = n_ops + 1
    /\ UNCHANGED <<buildVars, lifeVars, otherVars>>

NextCatalog ==
    \/ \E pkg \in PackageInfos : CatalogStore(pkg)
    \/ \E pk_id \in PackageIds : CatalogGet(pk_id)
    \/ \E doc \in Documents : CatalogImportJson(doc)

\* no build runs while the catalog is exercised
InitCatalogOnly ==
    /\ InitBuildVars
    /\ deps_mode = "gnu"
    /\ parallel_jobs = 0
    /\ InitCatalog
    /\ InitOther

SpecCatalog == InitCatalogOnly /\ [][NextCatalog]_vars

(***************************************************************************)
(* catalog::open and ensure_migrated                                        *)
(***************************************************************************)
\* the database file as one value
Database == [meta |-> dds_cat_meta, tables_exist |-> tables_exist,
             pkgs |-> dds_cat_pkgs, deps |-> dds_cat_pkg_deps, seq |-> sqlite_sequence]

\* constexpr int current_database_version = 1
current_database_version == 1

\* CREATE TABLE IF NOT EXISTS dds_cat_meta AS ... VALUES ('{"version": 0}')
CreateMetaIfNotExists(meta) == IF meta.kind = "absent" THEN Meta("ok", 0) ELSE meta

\* a migration that runs on every open
NeedsMigration1_Always(version) == TRUE

\* line 97: version < 1
NeedsMigration1(version) == version < 1

\* migrate_repodb_1: the two CREATE TABLE statements; sqlite refuses to
\* create a table that exists
MigrateRepodb1(d) ==
    IF d.tables_exist
    THEN [ok |-> FALSE, t |-> d, err |-> "sqlite3_error", migrated |-> 0]
    ELSE [ok |-> TRUE,
          t |-> [d EXCEPT !.tables_exist = TRUE,
                          !.pkgs = {},
                          !.deps = {},
                          !.seq = [dds_cat_pkgs |-> 0, dds_cat_pkg_deps |-> 0]],
          err |-> "none", migrated |-> 1]

\* ensure_migrated, under its transaction_guard. json::parse throws its own
\* parse_error for a text that is not JSON.
EnsureMigrated(d) ==
    LET fail(kind) == [ok |-> FALSE, t |-> d, err |-> kind, migrated |-> 0]
        meta == CreateMetaIfNotExists(d.meta)
        d1 == [d EXCEPT !.meta = meta]
        body ==
            IF meta.kind = "not_json" THEN fail("json_parse_error")
            ELSE IF meta.kind = "not_object" THEN fail("corrupted_catalog_db")
            ELSE IF meta.kind = "bad_version" THEN fail("corrupted_catalog_db")
            ELSE IF meta.version > current_database_version THEN fail("catalog_too_new")
            ELSE LET m == IF NeedsMigration1(meta.version)
                             THEN MigrateRepodb1(d1)
                             ELSE [ok |-> TRUE, t |-> d1, err |-> "none", migrated |-> 0]
                 IN  IF ~m.ok THEN m
                     ELSE [m EXCEPT !.t.meta = Meta("ok", 1)]
    IN  TransactionGuard(d, body)

\* catalog::open: a sqlite3_error of ensure_migrated is rethrown as
\* corrupted_catalog_db, every other exception passes through
Open(d) ==
    LET r == EnsureMigrated(d)
    IN  IF r.err = "sqlite3_error" THEN [r EXCEPT !.err = "corrupted_catalog_db"] ELSE r

CatalogOpen ==
    /\ handle = "closed"
    /\ n_opens < MaxOpens
    /\ LET r == Open(Database)
       IN  /\ dds_cat_meta' = r.t.meta
           /\ tables_exist' = r.t.tables_exist
           /\ dds_cat_pkgs' = r.t.pkgs
           /\ dds_cat_pkg_deps' = r.t.deps
           /\ sqlite_sequence' = r.t.seq
           /\ handle' = IF r.ok THEN "open" ELSE "closed"
           /\ migrations' = migrations + (IF r.ok THEN r.migrated ELSE 0)
           /\ cat_result' = [op |-> "open", status |-> IF r.ok THEN "ok" ELSE r.err]
    /\ n_opens' = n_opens + 1
    /\ UNCHANGED <<n_ops, stored, buildVars, otherVars>>

\* the catalog object is destroyed; the database file stays as it is
CatalogClose ==
    /\ handle = "open"
    /\ handle' = "closed"
    /\ cat_result' = [op |-> "close", status |-> "ok"]
    /\ UNCHANGED <<dds_cat_pkgs, dds_cat_pkg_deps, sqlite_sequence, n_ops, stored,
                   dds_cat_meta, tables_exist, n_opens, migrations, buildVars,
                   otherVars>>

\* the database files catalog::open may be given: none yet, one at schema
\* version 0 or below (no tables yet), one written by a later release
\* (version 2 or 3), and files that are damaged: tables without the
\* metadata that says so, or metadata that is not what was written
DatabaseFiles ==
    { [meta |-> Meta("absent", 0), tables_exist |-> FALSE],
      [meta |-> Meta("ok", 0), tables_exist |-> FALSE],
      [meta |-> Meta("ok", 0 - 1), tables_exist |-> FALSE],
      [meta |-> Meta("ok", 2), tables_exist |-> TRUE],
      [meta |-> Meta("ok", 3), tables_exist |-> TRUE],
      [meta |-> Meta("ok", 0), tables_exist |-> TRUE],
      [meta |-> Meta("absent", 0), tables_exist |-> TRUE],
      [meta |-> Meta("not_json", 0), tables_exist |-> TRUE],
      [meta |-> Meta("not_object", 0), tables_exist |-> TRUE],
      [meta |-> Meta("bad_version", 0), tables_exist |-> TRUE] }

InitOpen ==
    /\ InitBuildVars
    /\ deps_mode = "gnu"
    /\ parallel_jobs = 0
    /\ \E f \in DatabaseFiles :
          /\ dds_cat_meta = f.meta
          /\ tables_exist = f.tables_exist
    /\ dds_cat_pkgs = {}
    /\ dds_cat_pkg_deps = {}
    /\ sqlite_sequence = [dds_cat_pkgs |-> 0, dds_cat_pkg_deps |-> 0]
    /\ cat_result = [op |-> "none", status |-> "ok"]
    /\ n_ops = 0
    /\ stored = [id \in PackageIds |-> NoPackage]
    /\ handle = "closed"
    /\ n_opens = 0
    /\ migrations = 0
    /\ InitOther

NextOpen ==
    \/ CatalogOpen
    \/ CatalogClose
    \/ NextCatalog

SpecOpen == InitOpen /\ [][NextOpen]_vars

(***************************************************************************)
(* package_manifest::load_from_file                                         *)
(***************************************************************************)
\* a member that the document does not have
JAbsent == [t |-> "absent"]

\* a range string of a "depends" member: "^low" when valid
MRange(valid, lo) == [t |-> "string", valid |-> valid, caret |-> lo]

\* the values the members of a manifest are drawn from
NameValues == {JAbsent, JStr("pkg"), JStr(""), JInt(7)}
NamespaceValues == {JAbsent, JStr("ns"), JStr(""), JInt(7)}
VersionValues == {JAbsent, JStr("1.0.0"), JStr("bad"), JInt(7)}
DependsValues ==
    { JAbsent,
      JObj(<<[name |-> "x", value |-> MRange(TRUE, <<1, 0, 0>>)]>>),
      JObj(<<[name |-> "x", value |-> MRange(FALSE, <<1, 0, 0>>)]>>),
      JObj(<<[name |-> "x", value |-> JInt(7)]>>),
      JStr("x") }
TestDriverValues == {JAbsent, JStr("Catch"), JStr("Catch-Main"), JStr("Foo"), JInt(7)}
\* a key outside the schema: none, one that sorts before the known keys,
\* one that sorts after them
UnknownKeys == {"", "author", "zzz"}

\* the members of a manifest object in the order the mapping visits them:
\* sorted by key
Items(doc) ==
    LET item(k, v) == IF v = JAbsent THEN <<>> ELSE <<[key |-> k, value |-> v]>>
    IN  item("$schema", doc.schema)
        \o (IF doc.unknown = "author" THEN <<[key |-> "author", value |-> JInt(7)]>>
                                       ELSE <<>>)
        \o item("depends", doc.depends)
        \o item("name", doc.name)
        \o item("namespace", doc.namespace)
        \o item("test_driver", doc.test_driver)
        \o item("version", doc.version)
        \o (IF doc.unknown = "zzz" THEN <<[key |-> "zzz", value |-> JInt(7)]>>
                                    ELSE <<>>)

ManifestDocs ==
    {[root_is_object |-> TRUE, schema |-> JAbsent, name |-> n, namespace |-> ns,
      version |-> v, depends |-> d, test_driver |-> td, unknown |-> u] :
        n \in NameValues, ns \in NamespaceValues, v \in VersionValues,
        d \in DependsValues, td \in TestDriverValues, u \in UnknownKeys}
    \cup
    {[root_is_object |-> o, schema |-> JStr("s"), name |-> JStr("pkg"),
      namespace |-> JStr("ns"), version |-> JStr("2.0.0"), depends |-> JAbsent,
      test_driver |-> JAbsent, unknown |-> ""] : o \in BOOLEAN}

\* a default-constructed package_manifest; semver::version{} is 0.0.0
DefaultManifest ==
    [pkg_id |-> [name |-> "", version |-> <<0, 0, 0>>], namespace_ |-> "",
     dependencies |-> <<>>, test_driver |-> "none"]

\* semver::version::parse accepts the string
IsSemver(str) == \E v \in AllVersions : VersionToString(v) = str

\* lines 136-146, and the same test in the legacy loader (lines 47-57)
TestDriver(str) ==
    IF str = "Catch-Main" THEN [ok |-> TRUE, err |-> "none", lib |-> "catch_main"]
    ELSE IF str = "Catch" THEN [ok |-> TRUE, err |-> "none", lib |-> "catch_"]
    ELSE [ok |-> FALSE, err |-> "unknown_test_driver", lib |-> "none"]

\* lines 113-129: the members of "depends"
RECURSIVE ManifestDeps(_)
ManifestDeps(items) ==
    IF items = <<>> THEN [ok |-> TRUE, err |-> "none", deps |-> <<>>]
    ELSE LET v == Head(items).value
         IN  IF v.t # "string" THEN [ok |-> FALSE, err |-> "invalid_pkg_manifest", deps |-> <<>>]
             ELSE IF ~v.valid
             THEN [ok |-> FALSE, err |-> "invalid_version_range_string", deps |-> <<>>]
             ELSE LET rest == ManifestDeps(Tail(items))
                      rng == RangeParse(v)
                  IN  [rest EXCEPT
                         !.deps = <<Dep(Head(items).name, rng.low, rng.high)>> \o rest.deps]

\* what the mapping does with one member: a rejection (dc_reject_t, turned
\* into invalid_pkg_manifest at lines 153-156) or an exception ends the load
VisitKey(item, ret) ==
    LET reject == [ok |-> FALSE, err |-> "invalid_pkg_manifest", ret |-> ret]
        throw(kind) == [ok |-> FALSE, err |-> kind, ret |-> ret]
        accept(r) == [ok |-> TRUE, err |-> "none", ret |-> r]
        k == item.key
        v == item.value
    IN  IF k = "$schema" THEN accept(ret)
        ELSE IF k = "name"
        THEN IF v.t = "string" THEN accept([ret EXCEPT !.pkg_id.name = v.v]) ELSE reject
        ELSE IF k = "namespace"
        THEN IF v.t = "string" THEN accept([ret EXCEPT !.namespace_ = v.v]) ELSE reject
        ELSE IF k = "version"
        THEN IF v.t # "string" THEN reject
             ELSE IF ~IsSemver(v.v) THEN throw("semver_invalid_version")
             ELSE accept([ret EXCEPT !.pkg_id.version = VersionParse(v.v)])
        ELSE IF k = "depends"
        THEN IF v.t # "object" THEN reject
             ELSE LET d == ManifestDeps(v.items)
                  IN  IF d.ok THEN accept([ret EXCEPT !.dependencies = d.deps])
                      ELSE throw(d.err)
        ELSE IF k = "test_driver"
        THEN IF v.t # "string" THEN reject
             ELSE LET td == TestDriver(v.v)
                  IN  IF td.ok THEN accept([ret EXCEPT !.test_driver = td.lib])
                      ELSE throw(td.err)
        ELSE reject

\* semester::decompose over the members, stopping at the first that is not
\* accepted
RECURSIVE Decompose(_, _)
Decompose(items, ret) ==
    IF items = <<>> THEN [ok |-> TRUE, err |-> "none", ret |-> ret]
    ELSE LET r == VisitKey(Head(items), ret)
         IN  IF r.ok THEN Decompose(Tail(items), r.ret) ELSE r

\* line 162: the namespace was not set (or set to the empty string)
NamespaceRequired(ns) == ns = ""

\* package_manifest::load_from_file
LoadFromFile(doc) ==
    LET fail(kind) == [ok |-> FALSE, err |-> kind, ret |-> DefaultManifest]
    IN  IF ~doc.root_is_object THEN fail("invalid_pkg_manifest")
        ELSE LET res == Decompose(Items(doc), DefaultManifest)
             IN  IF ~res.ok THEN fail(res.err)
                 ELSE IF res.ret.pkg_id.name = "" THEN fail("invalid_pkg_manifest")
                 ELSE IF NamespaceRequired(res.ret.namespace_)
                 THEN fail("invalid_pkg_manifest")
                 ELSE res

ManifestLoadFromFile ==
    /\ man_input.loader = "load_from_file"
    /\ man_result.err = "not_loaded"
    /\ man_result' = LoadFromFile(man_input.doc)
    /\ UNCHANGED <<man_input, buildVars, catVars, cliVars, idVars, repoVars,
                   stepVars>>

(***************************************************************************)
(* package_manifest::load_from_dds_file                                     *)
(***************************************************************************)
\* a "Depends" value: "<name>@<low>"
DependsString(n, lo) == [name |-> n, low |-> lo]

\* the key-value files the legacy loader is given
LegacyFiles ==
    {[Name |-> n, Namespace |-> ns, Version |-> v, Depends |-> d, Test_Driver |-> td,
      unknown |-> u] :
        n \in {JAbsent, JStr(""), JStr("pkg")},
        ns \in {JAbsent, JStr(""), JStr("ns")},
        v \in {JAbsent, JStr(""), JStr("1.0.0"), JStr("bad")},
        d \in {<<>>, <<DependsString("x", <<1, 0, 0>>)>>},
        td \in {JAbsent, JStr("Catch"), JStr("Foo")},
        u \in BOOLEAN}

\* lm::read with the readers of lines 29-34: a key outside the list is
\* refused, a required key must be there, an optional key that is missing
\* leaves its target as it was
LmRead(kvs) ==
    LET str(v) == IF v = JAbsent THEN "" ELSE v.v
    IN  IF kvs.unknown THEN [ok |-> FALSE, err |-> "lm_unknown_key"]
        ELSE IF kvs.Name = JAbsent \/ kvs.Version = JAbsent
        THEN [ok |-> FALSE, err |-> "lm_missing_key"]
        ELSE [ok |-> TRUE, err |-> "none",
              name |-> str(kvs.Name), namespace_ |-> str(kvs.Namespace),
              version_str |-> str(kvs.Version), depends_strs |-> kvs.Depends,
              opt_test_driver |-> kvs.Test_Driver]

\* dependency::parse_depends_string: "name@low" is [low, next major)
ParseDependsString(d) == Dep(d.name, d.low, <<d.low[1] + 1, 0, 0>>)

\* a loader that leaves the namespace as it was read
NamespaceOrName_Keep(ns, name) == ns

\* lines 60-62
NamespaceOrName(ns, name) == IF ns = "" THEN name ELSE ns

\* package_manifest::load_from_dds_file
LoadFromDdsFile(kvs) ==
    LET fail(kind) == [ok |-> FALSE, err |-> kind, ret |-> DefaultManifest]
        r == LmRead(kvs)
    IN  IF ~r.ok THEN fail(r.err)
        ELSE IF r.name = "" THEN fail("invalid_pkg_name")
        ELSE IF r.version_str = "" THEN fail("invalid_version_string")
        ELSE LET td == IF r.opt_test_driver = JAbsent
                          THEN [ok |-> TRUE, err |-> "none", lib |-> "none"]
                          ELSE TestDriver(r.opt_test_driver.v)
             IN  IF ~td.ok THEN fail(td.err)
                 ELSE IF ~IsSemver(r.version_str) THEN fail("semver_invalid_version")
                 ELSE [ok |-> TRUE, err |-> "none",
                       ret |-> [pkg_id |-> [name |-> r.name,
                                            version |-> VersionParse(r.version_str)],
                                namespace_ |-> NamespaceOrName(r.namespace_, r.name),
                                dependencies |->
                                    [i \in 1..Len(r.depends_strs) |->
                                        ParseDependsString(r.depends_strs[i])],
                                test_driver |-> td.lib]]

ManifestLoadFromDdsFile ==
    /\ man_input.loader = "load_from_dds_file"
    /\ man_result.err = "not_loaded"
    /\ man_result' = LoadFromDdsFile(man_input.doc)
    /\ UNCHANGED <<man_input, buildVars, catVars, cliVars, idVars, repoVars,
                   stepVars>>

NextManifest ==
    \/ ManifestLoadFromFile
    \/ ManifestLoadFromDdsFile

\* one manifest file, JSON or legacy, is about to be loaded
InitManifestOnly ==
    /\ InitBuildVars
    /\ deps_mode = "gnu"
    /\ parallel_jobs = 0
    /\ InitCatalog
    /\ man_input \in {[loader |-> "load_from_file", doc |-> doc] : doc \in ManifestDocs}
                    \cup {[loader |-> "load_from_dds_file", doc |-> kvs] :
                               kvs \in LegacyFiles}
    /\ man_result = [ok |-> FALSE, err |-> "not_loaded"]
    /\ InitMain
    /\ InitId
    /\ InitRepo
    /\ InitStep

SpecManifest == InitManifestOnly /\ [][NextManifest]_vars

(***************************************************************************)
(* main: the command dispatcher and its exit code                           *)
(***************************************************************************)
\* the commands the parser can select
Commands ==
    {"verify_ident", "catalog create", "catalog import", "catalog get", "catalog add",
     "catalog list", "catalog show", "repo ls", "repo init", "sdist create",
     "sdist export", "build", "build-deps"}

\* the classes an exception object can be caught as
ExceptionBases(class) ==
    IF class = "dds::user_cancelled"
    THEN {"dds::user_cancelled", "dds::error_base", "std::exception"}
    ELSE IF class \in {"dds::user_error", "dds::external_error"}
    THEN {class, "dds::error_base", "std::exception"}
    ELSE IF class = "args::ParseError"
    THEN {"args::ParseError", "args::Error", "std::exception"}
    ELSE {class, "std::exception"}

UserError(errc) == Exc("dds::user_error", errc)

\* the signal handler's exception, raised at a cancellation point
UserCancelled == Exc("dds::user_cancelled", "user_cancelled")

\* what catalog::open throws on the database files it may be given
OpenRaises ==
    {IF Open(d).err = "json_parse_error"
        THEN Exc("nlohmann::json::parse_error", "none")
        ELSE Exc("dds::external_error", Open(d).err) :
        d \in {[meta |-> f.meta, tables_exist |-> f.tables_exist, pkgs |-> {}, deps |-> {},
                seq |-> [dds_cat_pkgs |-> 0, dds_cat_pkg_deps |-> 0]] :
                    f \in {g \in DatabaseFiles :
                              ~Open([meta |-> g.meta, tables_exist |-> g.tables_exist,
                                     pkgs |-> {}, deps |-> {},
                                     seq |-> [dds_cat_pkgs |-> 0,
                                              dds_cat_pkg_deps |-> 0]]).ok}}}

\* what import_json_str throws on the documents it may be given
ImportRaises ==
    {IF ImportJsonStr(doc, [pkgs |-> {}, deps |-> {},
                            seq |-> [dds_cat_pkgs |-> 0, dds_cat_pkg_deps |-> 0]]).err
            \in {"invalid_catalog_json", "no_catalog_remote_info"}
        THEN UserError(ImportJsonStr(doc, [pkgs |-> {}, deps |-> {},
                            seq |-> [dds_cat_pkgs |-> 0, dds_cat_pkg_deps |-> 0]]).err)
        ELSE Exc("neo::sqlite3::sqlite3_error", "none") :
        doc \in {d \in Documents :
                    ~ImportJsonStr(d, [pkgs |-> {}, deps |-> {},
                            seq |-> [dds_cat_pkgs |-> 0, dds_cat_pkg_deps |-> 0]]).ok}}

\* what the manifest loaders throw on the files they may be given
ManifestRaises ==
    {IF LoadFromFile(doc).err = "semver_invalid_version"
        THEN Exc("semver::invalid_version", "none")
        ELSE UserError(LoadFromFile(doc).err) :
        doc \in {d \in ManifestDocs : ~LoadFromFile(d).ok}}

\* toolchain_flag::get_toolchain, lines 37-65
ToolchainRaises ==
    {UserError("no_default_toolchain"), UserError("invalid_builtin_toolchain")}

\* the commands that download and build: solve, get_package_sdist, add_sdist,
\* then builder::build, whose archive step throws std::runtime_error
\* (archive.cpp, line 51)
BuildRaises ==
    ToolchainRaises \cup OpenRaises
    \cup {UserError("dependency_resolve_failure"), UserError("no_such_catalog_package"),
          UserError("sdist_exists"), UserError("compile_failure"),
          Exc("std::runtime_error", "none"), UserCancelled}

\* the exceptions that can leave the run() of a command
Raises(cmd) ==
    IF cmd = "verify_ident" THEN {}
    ELSE IF cmd = "catalog create" THEN OpenRaises
    ELSE IF cmd = "catalog import" THEN OpenRaises \cup ImportRaises
    ELSE IF cmd = "catalog get"
    THEN OpenRaises \cup {UserError("no_such_catalog_package"), UserCancelled,
                          Exc("std::runtime_error", "none")}
    ELSE IF cmd = "catalog add"
    THEN OpenRaises \cup {UserError("git_url_ref_mutual_req"),
                          Exc("neo::sqlite3::sqlite3_error", "none")}
    ELSE IF cmd = "catalog list" THEN OpenRaises
    ELSE IF cmd = "catalog show" THEN OpenRaises
    ELSE IF cmd = "repo ls" THEN {}
    ELSE IF cmd = "repo init" THEN {Exc("args::ParseError", "none")}
    ELSE IF cmd = "sdist create" THEN ManifestRaises \cup {UserError("sdist_exists")}
    ELSE IF cmd = "sdist export" THEN ManifestRaises \cup {UserError("sdist_exists")}
    ELSE IF cmd = "build" THEN BuildRaises \cup ManifestRaises
    ELSE BuildRaises

\* the values the run() of a command returns: catalog show returns 1 for a
\* package that is not in the catalog (line 337)
Returns(cmd) == IF cmd = "catalog show" THEN {0, 1} ELSE {0}

\* lines 760-769: parser.ParseCLI, with its two handlers
ParseCLI ==
    /\ cli_pc = "start"
    /\ \/ /\ cli_exc' = Exc("args::Help", "none")
          /\ exit_code' = 0
          /\ cli_pc' = "exited"
          /\ UNCHANGED cli_cmd
       \/ /\ cli_exc' = Exc("args::ParseError", "none")
          /\ exit_code' = 1
          /\ cli_pc' = "exited"
          /\ UNCHANGED cli_cmd
       \/ /\ \E cmd \in Commands : cli_cmd' = cmd
          /\ cli_pc' = "dispatch"
          /\ UNCHANGED <<cli_exc, exit_code>>
    /\ UNCHANGED <<cli_ret, buildVars, catVars, manVars, idVars,
                   repoVars, stepVars>>

\* lines 773-790, the body of the try block: the command's run() returns
RunReturns ==
    /\ cli_pc = "dispatch"
    /\ \E r \in Returns(cli_cmd) : cli_ret' = r
    /\ cli_pc' = "returned"
    /\ UNCHANGED <<cli_cmd, cli_exc, exit_code, buildVars, catVars, manVars, idVars,
                   repoVars, stepVars>>

\* the command's run() is left by an exception
RunThrows ==
    /\ cli_pc = "dispatch"
    /\ \E e \in Raises(cli_cmd) : cli_exc' = e
    /\ cli_pc' = "thrown"
    /\ UNCHANGED <<cli_cmd, cli_ret, exit_code, buildVars, catVars, manVars, idVars,
                   repoVars, stepVars>>

\* return build.run() and the like
MainReturn ==
    /\ cli_pc = "returned"
    /\ exit_code' = cli_ret
    /\ cli_pc' = "exited"
    /\ UNCHANGED <<cli_cmd, cli_ret, cli_exc, buildVars, catVars, manVars, idVars,
                   repoVars, stepVars>>

\* lines 791-802: the handlers, tried in the order they are written
Handle(e) ==
    LET bases == ExceptionBases(e.class)
    IN  IF "dds::user_cancelled" \in bases THEN 2
        ELSE IF "dds::error_base" \in bases THEN 1
        ELSE IF "std::exception" \in bases THEN 2
        ELSE 0 - 1

MainCatch ==
    /\ cli_pc = "thrown"
    /\ exit_code' = Handle(cli_exc)
    /\ cli_pc' = "exited"
    /\ UNCHANGED <<cli_cmd, cli_ret, cli_exc, buildVars, catVars, manVars, idVars,
                   repoVars, stepVars>>

NextMain ==
    \/ ParseCLI
    \/ RunReturns
    \/ RunThrows
    \/ MainReturn
    \/ MainCatch

InitMainOnly ==
    /\ InitBuildVars
    /\ deps_mode = "gnu"
    /\ parallel_jobs = 0
    /\ InitCatalog
    /\ InitOther

SpecMain == InitMainOnly /\ [][NextMain]_vars

(***************************************************************************)
(* package_id                                                               *)
(***************************************************************************)
\* package names in the order std::string's operator< gives them
IdNames == <<"a", "ab", "b">>

\* prerelease tags in their order
Prereleases == <<"alpha", "beta">>

\* versions: <<major, minor, patch>> or <<major, minor, patch, prerelease>>
IdVersions ==
    {<<0, 0, 0>>, <<1, 0, 0>>, <<1, 2, 0>>, <<1, 10, 0>>, <<1, 2, 3>>, <<2, 0, 0>>,
     <<1, 0, 0, "alpha">>, <<1, 0, 0, "beta">>, <<2, 0, 0, "alpha">>}

Ids == {[name |-> IdNames[i], version |-> v] : i \in 1..Len(IdNames), v \in IdVersions}

\* position of an element in a sequence without repetitions
Rank(seq, x) == CHOOSE i \in 1..Len(seq) : seq[i] = x

\* std::string operator<
StringLess(a, b) == Rank(IdNames, a) < Rank(IdNames, b)

\* semver::version operator<: major, minor, patch, and then a prerelease
\* sorts before the release and prereleases among themselves by their tag
SemverLess(v, w) ==
    \/ v[1] < w[1]
    \/ v[1] = w[1] /\ v[2] < w[2]
    \/ v[1] = w[1] /\ v[2] = w[2] /\ v[3] < w[3]
    \/ /\ v[1] = w[1] /\ v[2] = w[2] /\ v[3] = w[3]
       /\ \/ Len(v) = 4 /\ Len(w) = 3
          \/ Len(v) = 4 /\ Len(w) = 4 /\ Rank(Prereleases, v[4]) < Rank(Prereleases, w[4])

\* semver::version operator==
SemverEqual(v, w) == v = w

\* an operator< that looks at the names only
PackageIdLess_NameOnly(lhs, rhs) == StringLess(lhs.name, rhs.name)

\* operator<: std::tie(lhs.name, lhs.version) < std::tie(rhs.name, rhs.version)
PackageIdLess(lhs, rhs) ==
    \/ StringLess(lhs.name, rhs.name)
    \/ ~StringLess(rhs.name, lhs.name) /\ SemverLess(lhs.version, rhs.version)

\* operator==: std::tie(lhs.name, lhs.version) == std::tie(rhs.name, rhs.version)
PackageIdEqual(lhs, rhs) == lhs.name = rhs.name /\ SemverEqual(lhs.version, rhs.version)

\* a text is a sequence of pieces: a name, a number, or one of "@", ".", "-"
\* semver::version::to_string
SemverToString(v) ==
    <<ToString(v[1]), ".", ToString(v[2]), ".", ToString(v[3])>>
    \o (IF Len(v) = 4 THEN <<"-", v[4]>> ELSE <<>>)

\* package_id::to_string: name, '@', version
PackageIdToString(pid) == <<pid.name, "@">> \o SemverToString(pid.version)

\* the numbers a piece of text may stand for
MaxNumber == 10

\* the piece is the decimal text of a number
IsNumber(piece) == \E n \in 0..MaxNumber : ToString(n) = piece

ToNumber(piece) == CHOOSE n \in 0..MaxNumber : ToString(n) = piece

\* semver::version::parse
SemverParse(text) ==
    LET bad == [ok |-> FALSE, version |-> <<0, 0, 0>>]
        core == Len(text) >= 5
                /\ IsNumber(text[1]) /\ text[2] = "." /\ IsNumber(text[3])
                /\ text[4] = "." /\ IsNumber(text[5])
        triple == <<ToNumber(text[1]), ToNumber(text[3]), ToNumber(text[5])>>
    IN  IF ~core THEN bad
        ELSE IF Len(text) = 5 THEN [ok |-> TRUE, version |-> triple]
        ELSE IF Len(text) = 7 /\ text[6] = "-"
        THEN [ok |-> TRUE, version |-> Append(triple, text[7])]
        ELSE bad

\* package_id::parse: the name before the '@', the version after it
PackageIdParse(text) ==
    LET bad == [ok |-> FALSE, id |-> DefaultPackageId]
        ats == {i \in 1..Len(text) : text[i] = "@"}
    IN  IF ats = {} THEN bad
        ELSE LET at_pos == CHOOSE i \in ats : \A k \in ats : i <= k
                 ver == SemverParse(SubSeq(text, at_pos + 1, Len(text)))
             IN  IF at_pos # 2 \/ ~ver.ok THEN bad
                 ELSE [ok |-> TRUE, id |-> [name |-> text[1], version |-> ver.version]]

\* id_lhs is written out and read back
IdRoundTrip ==
    /\ id_text = <<>>
    /\ id_text' = PackageIdToString(id_lhs)
    /\ id_parsed' = PackageIdParse(PackageIdToString(id_lhs))
    /\ UNCHANGED <<id_lhs, id_rhs, id_cmp, buildVars, catVars, manVars, cliVars,
                   repoVars, stepVars>>

\* the two ids are compared, both ways
IdCompare ==
    /\ ~id_cmp.done
    /\ id_cmp' = [done |-> TRUE,
                  lt |-> PackageIdLess(id_lhs, id_rhs),
                  eq |-> PackageIdEqual(id_lhs, id_rhs),
                  gt |-> PackageIdLess(id_rhs, id_lhs)]
    /\ UNCHANGED <<id_lhs, id_rhs, id_text, id_parsed, buildVars, catVars, manVars,
                   cliVars, repoVars,
                   stepVars>>

NextId ==
    \/ IdRoundTrip
    \/ IdCompare

\* two package ids are given
InitIdOnly ==
    /\ InitBuildVars
    /\ deps_mode = "gnu"
    /\ parallel_jobs = 0
    /\ InitCatalog
    /\ InitManifest
    /\ InitMain
    /\ InitRepo
    /\ InitStep
    /\ id_lhs \in Ids
    /\ id_rhs \in Ids
    /\ id_text = <<>>
    /\ id_parsed = [ok |-> FALSE, id |-> DefaultPackageId]
    /\ id_cmp = NotCompared

SpecId == InitIdOnly /\ [][NextId]_vars

(***************************************************************************)
(* Properties of the build executor                                         *)
(***************************************************************************)
Range(seq) == {seq[i] : i \in 1..Len(seq)}

\* the four rebuild conditions of a compile job, read off the state
RebuildCondition(j) ==
    LET o == ObjectFilePath(j)
    IN  \/ ~objfile[o].exists
        \/ db[o].command = ""
        \/ \E i \in 1..Len(db[o].inputs) : mtime[db[o].inputs[i]] > objfile[o].mtime
        \/ QuoteCommand(GenerateCompileCommand(j, flags)) # db[o].command

\* the state right after the filter of compile_all, before any thread exists
JustFiltered == main_pc = "spawn" /\ threads = 0

\* the workers that are inside fn(item)
InFn == {w \in Workers : wpc[w] \in {"run", "compiling", "deps_lock", "deps_push"}}

\* C1: should_compile is true exactly when the object is missing, or no
\* previous command is recorded, or a recorded input is strictly newer than
\* the object, or the quoted command differs from the recorded one; a job for
\* which it is false is not handed to parallel_run and no subprocess is
\* spawned for it.
C1_ShouldCompile ==
    /\ \A j \in Jobs : ShouldCompile(j, db, mtime, objfile, flags) <=> RebuildCondition(j)
    /\ JustFiltered => \A j \in Jobs : (j \in Range(each_realized)) <=> RebuildCondition(j)
    /\ spawned \subseteq Range(each_realized)

\* a second build in which a.cpp is up to date and skipped while b.cpp runs
C1_Witness ==
    /\ n_builds = 2
    /\ main_pc = "join"
    /\ objfile["a.o"].exists /\ db["a.o"].command # ""
    /\ "a.cpp" \notin Range(each_realized)
    /\ spawned = {"b.cpp"}

Listing(f) == {j \in Jobs : \E i \in 1..Len(db[ObjectFilePath(j)].inputs) :
                                db[ObjectFilePath(j)].inputs[i] = f}

\* the jobs without a stored record made by the current command
Unrecorded ==
    {j \in Jobs : db[ObjectFilePath(j)].command
                    # QuoteCommand(GenerateCompileCommand(j, flags))}

\* one tracked input was modified after a build that returned true
OneInputTouched(f) ==
    /\ result = [kind |-> "return", value |-> TRUE]
    /\ dirty = {f}
    /\ Listing(f) # {}

\* C3 as stated: after a successful build, modifying one tracked input makes
\* the next build run exactly the jobs whose record lists it.
C3_Original ==
    \A f \in InputFiles :
        (JustFiltered /\ OneInputTouched(f)) => Range(each_realized) = Listing(f)

\* C3 amended: after a successful build, modifying one tracked input makes
\* the next build run exactly the jobs whose record lists it together with
\* the jobs that have no stored record made by the current command; no
\* subprocess is spawned for any other job, and all of them are spawned when
\* no compile fails.
C3_Necessity ==
    \A f \in InputFiles :
        /\ (JustFiltered /\ OneInputTouched(f))
              => Range(each_realized) = Listing(f) \cup Unrecorded
        /\ (main_pc \in {"spawn", "join", "tr"} /\ OneInputTouched(f))
              => spawned \subseteq Listing(f) \cup Unrecorded
        /\ (main_pc = "tr" /\ okay /\ OneInputTouched(f))
              => spawned = Listing(f) \cup Unrecorded

\* h.hpp was modified: a.cpp, whose record lists it, was recompiled and
\* b.cpp, whose record does not, was left alone
C3_Witness ==
    /\ main_pc = "tr" /\ okay
    /\ OneInputTouched("h.hpp")
    /\ db["b.o"].command # ""
    /\ spawned = {"a.cpp"}

\* C4: once an exception is recorded the cursor does not move and no worker
\* receives a job; a compile in flight is only ended by its own exit; and
\* parallel_run returns only after every thread it created has finished.
C4_ErrorLatch ==
    [][ /\ (main_pc \in {"spawn", "join"} /\ exceptions # <<>>)
            => (iter' = iter /\ witem' = witem)
        /\ \A w \in Workers :
              (wpc[w] = "compiling" /\ wpc'[w] # "compiling")
                  => wpc'[w] \in {"deps_lock", "loop", "catch"}
        /\ (main_pc = "join" /\ main_pc' = "tr")
            => (/\ threads = n_jobs
                /\ \A i \in 1..threads : wpc[ThreadIds[i]] = "done") ]_vars

\* parallel_run has returned with a job left under the cursor
C4_Witness ==
    /\ main_pc = "tr"
    /\ exceptions # <<>>
    /\ iter <= Len(each_realized)

\* C5 as stated: when compile jobs threw, the first recorded exception is
\* rethrown to the caller.
C5_Original ==
    (main_pc = "idle" /\ n_builds > 0 /\ logged # <<>>)
        => (result.kind = "throw" /\ result.exc = logged[1])

\* C5 amended: when compile jobs threw compile_failure, parallel_run joins
\* all workers, logs every recorded exception in the order recorded and
\* returns false; compile_all returns false and no exception reaches its
\* caller.
C5_FailureReported ==
    /\ (main_pc = "tr" /\ exceptions # <<>>)
          => (/\ ~okay
              /\ logged = exceptions
              /\ \A w \in Workers : wpc[w] \in {"done", "nothread"})
    /\ (main_pc = "idle" /\ n_builds > 0 /\ logged # <<>>)
          => result = [kind |-> "return", value |-> FALSE]
    /\ (main_pc = "idle" /\ n_builds > 0 /\ logged = <<>>)
          => result = [kind |-> "return", value |-> TRUE]

\* both compiles of a build failed and the call has returned
C5_Witness ==
    /\ main_pc = "idle"
    /\ Len(logged) = 2
    /\ result = [kind |-> "return", value |-> FALSE]

\* the bound on concurrent jobs that parallel_jobs stands for
JobsBound == IF parallel_jobs < 1 THEN HardwareConcurrency + 2 ELSE parallel_jobs

\* C6: at most parallel_jobs jobs execute at a time (hardware concurrency + 2
\* when parallel_jobs is less than 1), and no worker is inside a job before
\* all threads are created.
C6_BoundedParallelism ==
    /\ Cardinality(InFn) <= JobsBound
    /\ threads <= JobsBound
    /\ InFn # {} => (threads = JobsBound /\ main_pc = "join")
    /\ main_pc = "spawn" => iter = 1

\* the default bound is reached: two compilers run at once
C6_Witness ==
    /\ parallel_jobs = 0
    /\ Cardinality({w \in Workers : wpc[w] = "compiling"}) = HardwareConcurrency + 2

\* C7: the dep-db changes only in the update loop of the main thread, inside
\* the one transaction of the build, after every worker has been joined; a
\* record written comes from a compile of this build that has completed; at
\* most one worker is appending to all_new_deps.
C7_SerializedWrites ==
    [][ /\ db' # db
            => (/\ main_pc = "update" /\ tx_open
                /\ joined = n_jobs
                /\ \A w \in Workers : wpc[w] \in {"done", "nothread"}
                /\ \E j \in spawned :
                      /\ objfile[ObjectFilePath(j)] = [exists |-> TRUE, mtime |-> now]
                      /\ db' = UpdateDepsInfoDb(db,
                           RetDepsInfo(j, deps_mode, flags, TRUE, TRUE)))
        /\ tx_open => main_pc = "update"
        /\ (tx_open' /\ ~tx_open) => (main_pc = "tr" /\ upd' = 1)
        /\ Cardinality({w \in Workers : wpc[w] = "deps_push"}) <= 1
        /\ \A w \in Workers : wpc[w] = "deps_push" => deps_mut = w ]_vars

\* the second record of a build is about to be written
C7_Witness ==
    /\ main_pc = "update"
    /\ tx_open
    /\ upd = 2
    /\ Len(all_new_deps) = 2

(***************************************************************************)
(* Properties of the catalog                                                *)
(***************************************************************************)
\* the rows of dds_cat_pkgs that hold package pk_id
RowsOf(pk_id, pkgs) ==
    {r \in pkgs : r.name = pk_id.name /\ r.version = VersionToString(pk_id.version)}

\* the tables and counters are what they were before the step
CatalogUnchanged ==
    /\ dds_cat_pkgs' = dds_cat_pkgs
    /\ dds_cat_pkg_deps' = dds_cat_pkg_deps
    /\ sqlite_sequence' = sqlite_sequence

\* C8: the catalog holds exactly one row per stored (name, version) and none
\* for the others; dependencies_of a stored package returns the dependencies
\* of the package_info last stored under that id and no others; a store that
\* fails changes neither table.
C8_AtomicUpsert ==
    [][ /\ \A id \in PackageIds :
              /\ Cardinality(RowsOf(id, dds_cat_pkgs')) =
                    (IF stored'[id] = NoPackage THEN 0 ELSE 1)
              /\ stored'[id] # NoPackage =>
                    /\ Range(DependenciesOf(id, Tables')) = Range(stored'[id].deps)
                    /\ Len(DependenciesOf(id, Tables')) = Len(stored'[id].deps)
        /\ (cat_result'.op = "store" /\ cat_result'.status # "ok") => CatalogUnchanged
      ]_vars

\* a package that had dependencies was stored again: the rows of its former
\* dependencies are still in the table, under the pkg_id that was deleted
C8_Witness ==
    /\ cat_result.op = "store" /\ cat_result.status = "ok"
    /\ \E d \in dds_cat_pkg_deps : \A r \in dds_cat_pkgs : r.pkg_id # d.pkg_id
    /\ \E id \in PackageIds : stored[id] # NoPackage /\ stored[id].deps # <<>>

\* the dependencies got are ordered by name
OrderedByName(deps) ==
    \A i \in 1..Len(deps), k \in 1..Len(deps) :
        i < k => DepNameRank(deps[i].name) < DepNameRank(deps[k].name)

\* got equals the stored package p but for auto_lib and the order of deps
RoundTrip(p, got) ==
    /\ got # NoPackage
    /\ got.ident = p.ident
    /\ got.description = p.description
    /\ got.remote.url = p.remote.url
    /\ got.remote.ref = p.remote.ref
    /\ Range(got.deps) = Range(p.deps)
    /\ Len(got.deps) = Len(p.deps)
    /\ OrderedByName(got.deps)

\* C9 as stated: get returns the package last stored, auto_lib included,
\* and nothing for an id never stored.
C9_Original ==
    \A id \in PackageIds :
        IF stored[id] = NoPackage THEN Get(id, Tables) = NoPackage
        ELSE /\ RoundTrip(stored[id], Get(id, Tables))
             /\ Get(id, Tables).remote.auto_lib = stored[id].remote.auto_lib

\* C9 amended: get returns the package last stored, with its dependencies
\* ordered by name; auto_lib is returned as stored when it is absent or has
\* a non-empty name and namespace, and as absent when both are empty; get of
\* an id never stored returns nothing.
C9_RoundTrip ==
    \A id \in PackageIds :
        IF stored[id] = NoPackage THEN Get(id, Tables) = NoPackage
        ELSE /\ RoundTrip(stored[id], Get(id, Tables))
             /\ Get(id, Tables).remote.auto_lib =
                   (IF stored[id].remote.auto_lib = Usage("", "")
                       THEN <<>> ELSE stored[id].remote.auto_lib)

\* get has returned a package that was stored with its dependencies out of
\* name order and with an auto_lib
C9_Witness ==
    /\ cat_result.op = "get"
    /\ cat_result.value # NoPackage
    /\ cat_result.value.remote.auto_lib = Usage("ns", "n")
    /\ stored[cat_result.value.ident].deps # cat_result.value.deps
    /\ Len(cat_result.value.deps) = 2

\* C10: an import that fails leaves both tables as they were before the
\* call; an import that succeeds has stored every package version of the
\* document.
C10_ImportAtomic ==
    [][ cat_result'.op = "import" =>
          IF cat_result'.status # "ok"
          THEN CatalogUnchanged /\ stored' = stored
          ELSE \A i \in 1..Len(cat_result'.doc.packages) :
                  LET e == cat_result'.doc.packages[i]
                      got == Get([name |-> e.name, version |-> VersionParse(e.version)],
                                 Tables')
                  IN  /\ got # NoPackage
                      /\ got.description =
                            (IF e.description.t = "null" THEN "" ELSE e.description.v)
                      /\ Len(got.deps) =
                            (IF e.depends.t = "null" THEN 0 ELSE Len(e.depends.items))
      ]_vars

\* an import failed in the store of its second package: the catalog is not
\* empty, and the first package of the document is not in it
C10_Witness ==
    /\ cat_result.op = "import"
    /\ cat_result.status = "sqlite3_error"
    /\ Len(cat_result.doc.packages) = 2
    /\ dds_cat_pkgs # {}
    /\ RowsOf([name |-> "a", version |-> <<1, 0, 0>>], dds_cat_pkgs) = {}

\* the import that just ended read a document whose "version" is an integer
\* greater than 1
ImportedNewer ==
    /\ cat_result'.op = "import"
    /\ cat_result'.doc.root_is_object
    /\ cat_result'.doc.version.t = "int"
    /\ cat_result'.doc.version.n > 1

\* C11 as stated: importing a document whose version is an integer greater
\* than 1 fails with catalog_too_new and stores nothing.
C11_Original ==
    [][ ImportedNewer => cat_result'.status = "catalog_too_new" /\ CatalogUnchanged ]_vars

\* C11 amended: importing a document whose version is an integer greater
\* than 1 fails with invalid_catalog_json and stores nothing.
C11_VersionTooNew ==
    [][ ImportedNewer =>
            /\ cat_result'.status = "invalid_catalog_json"
            /\ CatalogUnchanged
            /\ stored' = stored ]_vars

\* a document of version 2 was refused by a catalog that holds packages
C11_Witness ==
    /\ cat_result.op = "import"
    /\ cat_result.doc.version = JInt(2)
    /\ cat_result.status = "invalid_catalog_json"
    /\ dds_cat_pkgs # {}

\* the document has a key outside the schema: at the root, in a package
\* version or in a "git" object
HasUnknownKey(doc) ==
    \/ doc.unknown_key
    \/ \E i \in 1..Len(doc.packages) :
          \/ doc.packages[i].unknown_key
          \/ doc.packages[i].git.t = "object" /\ doc.packages[i].git.unknown_key

\* C12: importing a document that has a key outside the schema fails with
\* invalid_catalog_json and stores nothing.
C12_UnknownKeys ==
    [][ (cat_result'.op = "import" /\ HasUnknownKey(cat_result'.doc)) =>
            cat_result'.status = "invalid_catalog_json" /\ CatalogUnchanged ]_vars

(***************************************************************************)
(* Properties of catalog::open                                              *)
(***************************************************************************)
\* the database file is what it was before the step
DatabaseUnchanged ==
    /\ CatalogUnchanged
    /\ dds_cat_meta' = dds_cat_meta
    /\ tables_exist' = tables_exist

\* the schema version the file stores; a file without metadata is at 0
StoredVersion == CreateMetaIfNotExists(dds_cat_meta).version

\* the metadata holds an integer version
HasVersion == CreateMetaIfNotExists(dds_cat_meta).kind = "ok"

\* C13: open of a database whose stored version is greater than 1 fails
\* with catalog_too_new and leaves the database as it was; every other
\* open either returns with the stored version equal to 1 or fails with
\* corrupted_catalog_db.
C13_Open ==
    [][ cat_result'.op = "open" =>
          IF HasVersion /\ StoredVersion > current_database_version
          THEN cat_result'.status = "catalog_too_new" /\ DatabaseUnchanged
          ELSE \/ cat_result'.status = "ok" /\ dds_cat_meta' = Meta("ok", 1)
               \/ cat_result'.status = "corrupted_catalog_db"
      ]_vars

\* catalog::all: the ids of the rows; the statement has no ORDER BY
All(t) == {[name |-> r.name, version |-> VersionParse(r.version)] : r \in t.pkgs}

\* the file is at schema version n: the metadata says n, and the tables of
\* version 1 exist from version 1 on
AtSchemaVersion(n) ==
    /\ HasVersion
    /\ StoredVersion = n
    /\ tables_exist = (n >= 1)

\* C14: open of a database at a schema version n <= 1 returns, leaves the
\* database at version 1 and keeps every package and dependency row, so
\* that all() and dependencies_of give what they gave before; it runs the
\* version-1 migration only when n < 1, and the migration is never
\* committed twice on one database.
C14_MigratePreserves ==
    [][ (cat_result'.op = "open"
         /\ \E n \in (0 - 1)..current_database_version : AtSchemaVersion(n)) =>
            /\ cat_result'.status = "ok"
            /\ dds_cat_meta' = Meta("ok", current_database_version)
            /\ tables_exist'
            /\ CatalogUnchanged
            /\ All(Tables') = All(Tables)
            /\ \A id \in PackageIds :
                  DependenciesOf(id, Tables') = DependenciesOf(id, Tables)
            /\ migrations' = migrations + (IF StoredVersion < 1 THEN 1 ELSE 0)
            /\ migrations' <= 1
      ]_vars

\* a catalog that was migrated once and then filled was opened again, for
\* the third time, and holds a package with dependencies
C14_Witness ==
    /\ cat_result.op = "open" /\ cat_result.status = "ok"
    /\ n_opens >= 3
    /\ migrations = 1
    /\ dds_cat_pkg_deps # {}
    /\ \E id \in PackageIds : Len(DependenciesOf(id, Tables)) = 2

(***************************************************************************)
(* Properties of the manifest loaders                                       *)
(***************************************************************************)
\* the member is a string that is not empty
Filled(v) == v.t = "string" /\ v.v # ""

\* nothing but the namespace can make the loader refuse the JSON manifest
JsonValidButNamespace(doc) ==
    /\ doc.root_is_object
    /\ Filled(doc.name)
    /\ doc.version.t = "string" /\ IsSemver(doc.version.v)
    /\ doc.depends = JAbsent \/ (doc.depends.t = "object" /\ ManifestDeps(doc.depends.items).ok)
    /\ doc.test_driver = JAbsent \/ (doc.test_driver.t = "string" /\ TestDriver(doc.test_driver.v).ok)
    /\ doc.unknown = ""

\* nothing but the namespace can make the loader refuse the legacy manifest
LegacyValidButNamespace(kvs) ==
    /\ Filled(kvs.Name)
    /\ kvs.Version.t = "string" /\ IsSemver(kvs.Version.v)
    /\ kvs.Test_Driver = JAbsent \/ TestDriver(kvs.Test_Driver.v).ok
    /\ ~kvs.unknown

\* the last load was given a manifest without a namespace that is valid in
\* every other respect
LoadedWithoutNamespace(loader) ==
    /\ man_input.loader = loader
    /\ man_result.err # "not_loaded"
    /\ IF loader = "load_from_file"
       THEN man_input.doc.namespace = JAbsent /\ JsonValidButNamespace(man_input.doc)
       ELSE man_input.doc.Namespace = JAbsent /\ LegacyValidButNamespace(man_input.doc)

\* the load returned a manifest whose namespace is the package name
NamespaceIsName ==
    /\ man_result.ok
    /\ man_result.ret.namespace_ = man_result.ret.pkg_id.name
    /\ man_result.ret.pkg_id.name = "pkg"

\* C15 as stated: a manifest without a namespace loads, with the package
\* name as its namespace, in the JSON loader and in the legacy loader.
C15_Original ==
    \A loader \in {"load_from_file", "load_from_dds_file"} :
        LoadedWithoutNamespace(loader) => NamespaceIsName

\* C15 amended: the legacy loader loads a manifest without a namespace and
\* gives it the package name as its namespace; the JSON loader refuses a
\* manifest without a namespace with invalid_pkg_manifest.
C15_NamespaceDefault ==
    /\ LoadedWithoutNamespace("load_from_dds_file") => NamespaceIsName
    /\ LoadedWithoutNamespace("load_from_file") =>
          ~man_result.ok /\ man_result.err = "invalid_pkg_manifest"

\* the legacy loader was given a manifest with dependencies and no namespace
C15_Witness ==
    /\ LoadedWithoutNamespace("load_from_dds_file")
    /\ man_input.doc.Depends # <<>>
    /\ man_result.ok
    /\ man_result.ret.namespace_ = "pkg"

\* C16: the JSON loader returns a manifest only for a document that has a
\* name string and a version string: without one of them the load ends in
\* an error and returns no manifest; a document that is valid but for a key
\* outside the schema is refused with invalid_pkg_manifest.
C16_Required ==
    (man_input.loader = "load_from_file" /\ man_result.err # "not_loaded") =>
        LET doc == man_input.doc
        IN  /\ (doc.name = JAbsent \/ doc.version = JAbsent) =>
                  ~man_result.ok
            /\ (doc.unknown # "" /\ Filled(doc.namespace)
                   /\ JsonValidButNamespace([doc EXCEPT !.unknown = ""])) =>
                  ~man_result.ok /\ man_result.err = "invalid_pkg_manifest"

(***************************************************************************)
(* Properties of main                                                       *)
(***************************************************************************)
\* the exception is a dds error other than user_cancelled, or an argument
\* parse error
IsUserError(e) ==
    \/ e.class \in {"dds::user_error", "dds::external_error"}
    \/ e.class = "args::ParseError"

\* C17: main returns 0 when the command succeeds (and the value run()
\* returns otherwise), 1 when a dds error other than user_cancelled or an
\* argument parse error was raised, and 2 on user_cancelled and on every
\* other exception.
C17_ExitCode ==
    cli_pc = "exited" =>
        IF cli_exc = NoExc THEN exit_code = cli_ret
        ELSE IF cli_exc.class = "args::Help" THEN exit_code = 0
        ELSE IF IsUserError(cli_exc) THEN exit_code = 1
        ELSE exit_code = 2

RepoFlags_ExportReads(cmd) ==
    IF cmd.kind \in {"repo ls", "sdist export"} THEN {"read"}
    ELSE IF cmd.kind = "repo init" THEN {"create_if_absent"}
    ELSE {"write_lock", "create_if_absent"}

RepoFlags(cmd) ==
    IF cmd.kind = "repo ls" THEN {"read"}
    ELSE IF cmd.kind = "repo init" THEN {"create_if_absent"}
    ELSE {"write_lock", "create_if_absent"}

\* the lock with_repository takes for a set of flags: exclusive with
\* write_lock, shared without it
LockMode(repo_flags) == IF "write_lock" \in repo_flags THEN "exclusive" ELSE "shared"

\* the lock file grants a mode when no other process holds a lock that
\* conflicts with it
LockGranted(p, mode) ==
    IF mode = "exclusive"
    THEN \A q \in Procs \ {p} : repo_lock[q] = "none"
    ELSE \A q \in Procs \ {p} : repo_lock[q] # "exclusive"

\* where a command starts: sdist export stages its tree first
\* (dds.main.cpp:515-525), the others call with_repository at once
FirstPc(cmd) == IF cmd.kind = "sdist export" THEN "stage" ELSE "acquire"

\* export_::run, lines 517-519: remove_all of the staging path if it exists
ExportRemoveStale(p) ==
    /\ proc_pc[p] = "stage"
    /\ proc_cmd[p].kind = "sdist export"
    /\ tmp_sdist' = IF tmp_sdist.exists THEN Absent ELSE tmp_sdist
    /\ proc_pc' = [proc_pc EXCEPT ![p] = "create"]
    /\ UNCHANGED <<repo_lock, repo_dirs, proc_cmd, proc_sdist, proc_status>>
    /\ UNCHANGED <<proc_deps, proc_bd>>
    /\ UNCHANGED <<buildVars, catVars, manVars, cliVars, idVars, stepVars>>

\* export_::run, lines 520-524: create_sdist with force = true puts the
\* project's tree at the staging path and returns the sdist {manifest, path}
ExportCreateSdist(p) ==
    /\ proc_pc[p] = "create"
    /\ proc_cmd[p].kind = "sdist export"
    /\ tmp_sdist' = SdistTree(ProjectId(proc_cmd[p].project), proc_cmd[p].project)
    /\ proc_sdist' = [proc_sdist EXCEPT
                         ![p] = [manifest |-> ProjectId(proc_cmd[p].project),
                                 path |-> ".dds-sdist"]]
    /\ proc_pc' = [proc_pc EXCEPT ![p] = "acquire"]
    /\ UNCHANGED <<repo_lock, repo_dirs, proc_cmd, proc_status>>
    /\ UNCHANGED <<proc_deps, proc_bd>>
    /\ UNCHANGED <<buildVars, catVars, manVars, cliVars, idVars, stepVars>>

\* with_repository: take the lock of the flags, waiting while another
\* process holds a conflicting one
WithRepositoryLock(p) ==
    /\ proc_pc[p] = "acquire"
    /\ LockGranted(p, LockMode(RepoFlags(proc_cmd[p])))
    /\ repo_lock' = [repo_lock EXCEPT ![p] = LockMode(RepoFlags(proc_cmd[p]))]
    /\ proc_pc' = [proc_pc EXCEPT ![p] = "callback"]
    /\ UNCHANGED <<repo_dirs, tmp_sdist, proc_cmd, proc_sdist, proc_status>>
    /\ UNCHANGED <<proc_deps, proc_bd>>
    /\ UNCHANGED <<buildVars, catVars, manVars, cliVars, idVars, stepVars>>

\* repository::add_sdist(sd, if_exists): the destination is named by the
\* manifest of sd and filled with the tree found at sd.path
AddSdist(dirs, manifest, tree, replace) ==
    IF dirs[manifest].exists /\ ~replace
    THEN [dirs |-> dirs, status |-> "sdist_exists"]
    ELSE IF ~tree.exists
    THEN [dirs |-> dirs, status |-> "filesystem_error"]
    ELSE [dirs |-> [dirs EXCEPT ![manifest] = tree], status |-> "ok"]

\* the callbacks of repo ls (lines 398-420) and repo init (line 437): they
\* change nothing in the repository
ListContents(p) ==
    /\ proc_pc[p] = "callback"
    /\ proc_cmd[p].kind \in {"repo ls", "repo init"}
    /\ proc_status' = [proc_status EXCEPT ![p] = "ok"]
    /\ proc_pc' = [proc_pc EXCEPT ![p] = "release"]
    /\ UNCHANGED <<repo_lock, repo_dirs, tmp_sdist, proc_cmd, proc_sdist>>
    /\ UNCHANGED <<proc_deps, proc_bd>>
    /\ UNCHANGED <<buildVars, catVars, manVars, cliVars, idVars, stepVars>>

\* the callback of sdist export, lines 529-533: add_sdist of the sdist that
\* create_sdist returned, replace with --replace and throw_exc without it
ExportAddSdist(p) ==
    /\ proc_pc[p] = "callback"
    /\ proc_cmd[p].kind = "sdist export"
    /\ LET r == AddSdist(repo_dirs, proc_sdist[p].manifest, tmp_sdist,
                         proc_cmd[p].force)
       IN  /\ repo_dirs' = r.dirs
           /\ proc_status' = [proc_status EXCEPT ![p] = r.status]
    /\ proc_pc' = [proc_pc EXCEPT ![p] = "release"]
    /\ UNCHANGED <<repo_lock, tmp_sdist, proc_cmd, proc_sdist>>
    /\ UNCHANGED <<proc_deps, proc_bd>>
    /\ UNCHANGED <<buildVars, catVars, manVars, cliVars, idVars, stepVars>>

\* the package ids a successful repo.solve hands to the loop, dependencies
\* before their dependents
SolvedDeps == <<"dep@1.0.0", "a@1.0.0">>

\* repository::find(pk): the sdist in the subdirectory that pk names, or
\* nothing
Find(dirs, pk) == dirs[pk]

\* get_package_sdist: the clone of the package's remote, as a temporary
\* sdist whose manifest carries the catalog's id
GetPackageSdist(pk) ==
    [sdist |-> [manifest |-> pk, path |-> "tmpdir"],
     tree |-> SdistTree(pk, "clone")]

\* auto exists = !!repo.find(pk)   (dds.main.cpp:617, 712)
Exists(dirs, pk) == Find(dirs, pk).exists

\* the first statement of the callback of build (line 615) and of
\* build-deps (line 711): repo.solve returns the ids or throws
BuildSolve(p) ==
    /\ proc_pc[p] = "callback"
    /\ proc_cmd[p].kind \in {"build", "build-deps"}
    /\ \E solved \in BOOLEAN :
          IF solved
          THEN /\ proc_deps' = [proc_deps EXCEPT ![p] = SolvedDeps]
               /\ proc_pc' = [proc_pc EXCEPT ![p] = "deps"]
               /\ UNCHANGED proc_status
          ELSE /\ proc_status' = [proc_status EXCEPT
                                     ![p] = "dependency_resolve_failure"]
               /\ proc_pc' = [proc_pc EXCEPT ![p] = "release"]
               /\ UNCHANGED proc_deps
    /\ UNCHANGED <<repo_lock, repo_dirs, tmp_sdist, proc_cmd, proc_sdist, proc_bd>>
    /\ UNCHANGED <<buildVars, catVars, manVars, cliVars, idVars, stepVars>>

\* one turn of the loop over the solved ids (lines 616-631, 711-726): a
\* package that find does not return is fetched and added with throw_exc;
\* then find must return it, and what it returns is added to the builder.
\* The callback returns after the last id, and throws when add_sdist does
\* and when the second find returns nothing.
BuildEnsure(p) ==
    /\ proc_pc[p] = "deps"
    /\ proc_cmd[p].kind \in {"build", "build-deps"}
    /\ LET pk == proc_deps[p][Len(proc_bd[p]) + 1]
           tsd == GetPackageSdist(pk)
           r == IF Exists(repo_dirs, pk)
                THEN [dirs |-> repo_dirs, status |-> "ok"]
                ELSE AddSdist(repo_dirs, tsd.sdist.manifest, tsd.tree, FALSE)
           sdist_ptr == Find(r.dirs, pk)
       IN  /\ repo_dirs' = r.dirs
           /\ IF r.status # "ok"
              THEN /\ proc_status' = [proc_status EXCEPT ![p] = r.status]
                   /\ proc_pc' = [proc_pc EXCEPT ![p] = "release"]
                   /\ UNCHANGED proc_bd
              ELSE IF ~sdist_ptr.exists
              THEN /\ proc_status' = [proc_status EXCEPT ![p] = "assert"]
                   /\ proc_pc' = [proc_pc EXCEPT ![p] = "release"]
                   /\ UNCHANGED proc_bd
              ELSE /\ proc_bd' = [proc_bd EXCEPT ![p] = Append(@, sdist_ptr)]
                   /\ proc_pc' = [proc_pc EXCEPT
                          ![p] = IF Len(proc_bd[p]) + 1 = Len(proc_deps[p])
                                 THEN "release" ELSE "deps"]
                   /\ UNCHANGED proc_status
    /\ UNCHANGED <<repo_lock, tmp_sdist, proc_cmd, proc_sdist, proc_deps>>
    /\ UNCHANGED <<buildVars, catVars, manVars, cliVars, idVars, stepVars>>

\* with_repository: the lock is released when the callback returns and
\* when it throws
WithRepositoryUnlock(p) ==
    /\ proc_pc[p] = "release"
    /\ repo_lock' = [repo_lock EXCEPT ![p] = "none"]
    /\ proc_pc' = [proc_pc EXCEPT
                      ![p] = IF proc_status[p] = "ok" THEN "done" ELSE "failed"]
    /\ UNCHANGED <<repo_dirs, tmp_sdist, proc_cmd, proc_sdist, proc_status>>
    /\ UNCHANGED <<proc_deps, proc_bd>>
    /\ UNCHANGED <<buildVars, catVars, manVars, cliVars, idVars, stepVars>>

NextRepo ==
    \E p \in Procs :
        \/ ExportRemoveStale(p)
        \/ ExportCreateSdist(p)
        \/ WithRepositoryLock(p)
        \/ ListContents(p)
        \/ ExportAddSdist(p)
        \/ BuildSolve(p)
        \/ BuildEnsure(p)
        \/ WithRepositoryUnlock(p)

\* every process is about to run one command on the one repository
InitRepoOnly ==
    /\ InitBuildVars
    /\ deps_mode = "gnu"
    /\ parallel_jobs = 0
    /\ InitCatalog
    /\ InitManifest
    /\ InitMain
    /\ InitId
    /\ InitStep
    /\ repo_lock = [p \in Procs |-> "none"]
    /\ repo_dirs = [d \in RepoDirNames |-> Absent]
    /\ tmp_sdist = Absent
    /\ proc_cmd \in [Procs -> RepoCmds]
    /\ proc_pc = [p \in Procs |-> FirstPc(proc_cmd[p])]
    /\ proc_sdist = [p \in Procs |-> NoSdist]
    /\ proc_status = [p \in Procs |-> "ok"]
    /\ proc_deps = [p \in Procs |-> <<>>]
    /\ proc_bd = [p \in Procs |-> <<>>]

SpecRepo == InitRepoOnly /\ [][NextRepo]_vars

(***************************************************************************)
(* Properties of the repository                                             *)
(***************************************************************************)
Writers == {p \in Procs : repo_lock[p] = "exclusive"}

Readers == {p \in Procs : repo_lock[p] = "shared"}

\* the processes that are inside the callback of one of the commands
InCallback(kinds) ==
    {p \in Procs : proc_pc[p] \in {"callback", "deps"}
                  /\ proc_cmd[p].kind \in kinds}

\* C19: at most one process holds the exclusive lock, and none holds the
\* shared lock meanwhile; at most one build or sdist export is inside its
\* callback, and no repo ls meanwhile; a process whose with_repository call
\* is over, by return or by exception, holds no lock.
C19_Locking ==
    /\ Cardinality(Writers) <= 1
    /\ Writers # {} => Readers = {}
    /\ Cardinality(InCallback({"build", "build-deps", "sdist export"})) <= 1
    /\ InCallback({"build", "build-deps", "sdist export"}) # {} =>
          InCallback({"repo ls"}) = {}
    /\ \A p \in Procs : proc_pc[p] \in {"done", "failed"} => repo_lock[p] = "none"

\* the callback of one process threw, its call is over, and another process
\* holds the exclusive lock while a third waits for it
C19_Witness ==
    \E p, q, r \in Procs :
        /\ proc_pc[p] = "failed" /\ proc_status[p] # "ok"
        /\ q # p /\ repo_lock[q] = "exclusive"
        /\ r \notin {p, q} /\ proc_pc[r] = "acquire"

\* the processes between create_sdist and add_sdist
Staged == {p \in Procs : proc_cmd[p].kind = "sdist export"
                         /\ proc_pc[p] \in {"acquire", "callback"}}

\* C20: every subdirectory of the repository is absent or holds the sdist
\* whose manifest names it, and the tree found at the staging path of an
\* export between its create_sdist and its add_sdist is its own project's.
C20_ExportIsolated ==
    /\ \A d \in RepoDirNames : repo_dirs[d].exists => repo_dirs[d].pkg_id = d
    /\ \A p \in Staged :
          tmp_sdist.exists => tmp_sdist = SdistTree(proc_sdist[p].manifest,
                                                    proc_cmd[p].project)

\* the processes that run build or build-deps
Builders == {p \in Procs : proc_cmd[p].kind \in {"build", "build-deps"}}

\* C30: in build and build-deps, under the write lock, add_sdist with
\* throw_exc never meets an existing destination; what find returns for a
\* solved id after the fetch-and-add step is an sdist of that id; and when
\* the callback has returned, the builder holds each solved package once,
\* in the order of the solver.
C30_EnsureSdists ==
    \A p \in Builders :
        /\ proc_status[p] # "sdist_exists"
        /\ proc_status[p] # "assert"
        /\ Len(proc_bd[p]) <= Len(proc_deps[p])
        /\ \A k \in 1..Len(proc_bd[p]) :
              proc_bd[p][k].exists /\ proc_bd[p][k].pkg_id = proc_deps[p][k]
        /\ (proc_pc[p] = "done" /\ proc_deps[p] # <<>>) =>
              Len(proc_bd[p]) = Len(proc_deps[p])

(***************************************************************************)
(* repository::solve over the catalog                                       *)
(***************************************************************************)
\* a by_name that returns every package of the catalog
ByName_AnyName(sv, t) ==
    {[name |-> r.name, version |-> VersionParse(r.version)] : r \in t.pkgs}

\* a by_name that returns the oldest version of the name only
ByName_Oldest(sv, t) ==
    LET rows == {r \in t.pkgs : r.name = sv}
    IN  {[name |-> r.name, version |-> VersionParse(r.version)] :
            r \in {r \in rows : \A q \in rows :
                      ~SemverLess(VersionParse(q.version), VersionParse(r.version))}}

\* catalog::by_name: SELECT name, version FROM dds_cat_pkgs WHERE name = ?
ByName(sv, t) ==
    {[name |-> r.name, version |-> VersionParse(r.version)] :
        r \in {r \in t.pkgs : r.name = sv}}

\* a version interval [low, high)
VersionRange(lo, hi) == [low |-> lo, high |-> hi]

InRange(v, rng) == ~SemverLess(v, rng.low) /\ SemverLess(v, rng.high)

Intersection(a, b) ==
    VersionRange(IF SemverLess(a.low, b.low) THEN b.low ELSE a.low,
                 IF SemverLess(a.high, b.high) THEN a.high ELSE b.high)

RangeEmpty(rng) == ~SemverLess(rng.low, rng.high)

\* the highest version of a non-empty set of ids
Highest(ids) == CHOOSE p \in ids : \A q \in ids : ~SemverLess(p.version, q.version)

\* the names the solver may meet
SolveNames == {"x", "y"}

NoRange == [low |-> <<>>, high |-> <<>>]

NoVersion == <<>>

\* the solver at its start: nothing accumulated, nothing selected, the
\* roots on the worklist
SolveState(roots) ==
    [acc |-> [n \in SolveNames |-> NoRange],
     sel |-> [n \in SolveNames |-> NoVersion],
     work |-> roots,
     err |-> "none"]

\* one edge is popped: its range is intersected with the accumulated one; a
\* name selected before must still lie in the range (there is no second
\* selection); a new name gets the highest catalog version of the range and
\* the dependencies of that version join the worklist
SolveEdge(st, t) ==
    LET e == Head(st.work)
        rng == IF st.acc[e.name] = NoRange THEN VersionRange(e.low, e.high)
               ELSE Intersection(st.acc[e.name], VersionRange(e.low, e.high))
        cands == {p \in ByName(e.name, t) : InRange(p.version, rng)}
    IN  IF RangeEmpty(rng)
        THEN [st EXCEPT !.err = "dependency_resolve_failure"]
        ELSE IF st.sel[e.name] # NoVersion
        THEN IF InRange(st.sel[e.name], rng)
             THEN [st EXCEPT !.acc[e.name] = rng, !.work = Tail(st.work)]
             ELSE [st EXCEPT !.err = "dependency_resolve_failure"]
        ELSE IF cands = {}
        THEN [st EXCEPT !.err = "no_such_catalog_package"]
        ELSE [st EXCEPT !.acc[e.name] = rng,
                        !.sel[e.name] = Highest(cands).version,
                        !.work = Tail(st.work) \o DependenciesOf(Highest(cands), t)]

RECURSIVE SolveLoop(_, _)
SolveLoop(st, t) ==
    IF st.err # "none" \/ st.work = <<>> THEN st ELSE SolveLoop(SolveEdge(st, t), t)

\* the selected ids in a stable order, leaves first
RECURSIVE EmitOrder(_, _, _)
EmitOrder(rest, out, t) ==
    IF rest = {} THEN out
    ELSE LET ready == {p \in rest :
                          \A i \in 1..Len(DependenciesOf(p, t)) :
                              DependenciesOf(p, t)[i].name \notin {q.name : q \in rest \ {p}}}
             pool == IF ready = {} THEN rest ELSE ready
             next == CHOOSE p \in pool :
                        \A q \in pool : DepNameRank(p.name) <= DepNameRank(q.name)
         IN  EmitOrder(rest \ {next}, Append(out, next), t)

\* solve(deps, catalog): the ordered ids, or the error and nothing else
Solve(deps, t) ==
    LET st == SolveLoop(SolveState(deps), t)
    IN  IF st.err # "none" THEN [ok |-> FALSE, err |-> st.err, ids |-> <<>>]
        ELSE [ok |-> TRUE, err |-> "none",
              ids |-> EmitOrder({[name |-> n, version |-> st.sel[n]] :
                                    n \in {n \in SolveNames : st.sel[n] # NoVersion}},
                                <<>>, t)]

\* cli_build::run line 617, cli_build_deps::run line 711: repo.solve(deps, cat)
RepoSolve ==
    /\ Len(sol_results) < MaxSolves
    /\ sol_results' = Append(sol_results, Solve(sol_roots, sol_cat))
    /\ UNCHANGED <<sol_cat, sol_roots>>
    /\ UNCHANGED <<buildVars, catVars, manVars, cliVars, idVars, repoVars, archiveVars,
                   compileVars>>

NextSolve == RepoSolve

\* catalogs of x 1.0.0 and x 2.0.0, each with or without a dependency on y, and
\* of y 1.0.0, with or without y 2.0.0
SolveInfo(n, v, ds) ==
    PackageInfo([name |-> n, version |-> v], ds, "d", GitRemoteListing("u", "r", <<>>))

RECURSIVE StoreAll(_, _)
StoreAll(pkgs, t) ==
    IF pkgs = <<>> THEN t ELSE StoreAll(Tail(pkgs), Store(Head(pkgs), t).t)

SolveRanges == {<<<<1, 0, 0>>, <<2, 0, 0>>>>, <<<<2, 0, 0>>, <<3, 0, 0>>>>,
                <<<<1, 0, 0>>, <<3, 0, 0>>>>}

DepsOnY == {<<>>} \cup {<<Dep("y", r[1], r[2])>> : r \in SolveRanges}

SolveCatalogs ==
    {StoreAll(<<SolveInfo("x", <<1, 0, 0>>, d1), SolveInfo("x", <<2, 0, 0>>, d2),
                SolveInfo("y", <<1, 0, 0>>, <<>>)>>
              \o (IF y2 THEN <<SolveInfo("y", <<2, 0, 0>>, <<>>)>> ELSE <<>>),
              EmptyTables) : d1 \in DepsOnY, d2 \in DepsOnY, y2 \in BOOLEAN}

RootDeps == {Dep(n, r[1], r[2]) : n \in SolveNames, r \in SolveRanges}

RootLists == {<<>>} \cup {<<d>> : d \in RootDeps}
             \cup {<<d, e>> : d \in RootDeps, e \in RootDeps}

InitSolveOnly ==
    /\ InitBuildVars
    /\ deps_mode = "gnu"
    /\ parallel_jobs = 0
    /\ InitCatalog
    /\ InitManifest
    /\ InitMain
    /\ InitId
    /\ InitRepo
    /\ InitArchive
    /\ InitCompile
    /\ sol_cat \in SolveCatalogs
    /\ sol_roots \in RootLists
    /\ sol_results = <<>>

SpecSolve == InitSolveOnly /\ [][NextSolve]_vars

(***************************************************************************)
(* Properties of the solver                                                 *)
(***************************************************************************)
SeqToSet(seq) == {seq[i] : i \in 1..Len(seq)}

\* the ranges a result requires of a name: those of the roots and those of
\* the dependencies of the chosen packages
Required(ids, n) ==
    {VersionRange(d.low, d.high) :
        d \in {d \in SeqToSet(sol_roots)
                     \cup UNION {SeqToSet(DependenciesOf(p, sol_cat)) : p \in SeqToSet(ids)} :
                  d.name = n}}

InAll(v, rngs) == \A rng \in rngs : InRange(v, rng)

InCatalog(n, rng) ==
    {VersionParse(row.version) : row \in {row \in sol_cat.pkgs :
        row.name = n /\ InRange(VersionParse(row.version), rng)}}

MaxVersion(vs) == CHOOSE v \in vs : \A w \in vs : ~SemverLess(v, w)

\* two roots on one name, the first of which the catalog can satisfy, and
\* the second of which leaves out the version the first one selects
SecondRootExcludes ==
    /\ Len(sol_roots) = 2
    /\ sol_roots[1].name = sol_roots[2].name
    /\ InCatalog(sol_roots[1].name, VersionRange(sol_roots[1].low, sol_roots[1].high)) # {}
    /\ ~InRange(MaxVersion(InCatalog(sol_roots[1].name,
                               VersionRange(sol_roots[1].low, sol_roots[1].high))),
                VersionRange(sol_roots[2].low, sol_roots[2].high))

ProcOkay(res) == res.retc = 0 /\ res.signal = 0

\* the outcomes of a subprocess: exit 0, exit 1, killed by signal 9
ProcResults == {ProcResult(0, 0), ProcResult(1, 0), ProcResult(0, 9)}

\* the libraries that are archived: no object file, one, two
ArchiveInputs == {<<>>, <<"a.o">>, <<"a.o", "b.o">>}

\* an archive() that leaves the file at the output path alone
RemovePrior_Keep(file) == file

\* lines 35-37: if (fs::exists(ar.out_path)) fs::remove(ar.out_path)
RemovePrior(file) == IF file # "absent" THEN "absent" ELSE file

\* lines 18-31: the object paths and the archive command are computed; what
\* an earlier build left at the output path is the prior copy
ArchiveStart ==
    /\ ar_pc \in {"idle", "returned", "thrown"}
    /\ n_archives < MaxArchives
    /\ n_archives' = n_archives + 1
    /\ ar_file' = IF ar_file = "absent" THEN "absent" ELSE "prior"
    /\ ar_exc' = NoExc
    /\ ar_pc' = "remove"
    /\ UNCHANGED <<ar_inputs, ar_dir, ar_res>>
    /\ UNCHANGED <<buildVars, catVars, manVars, cliVars, idVars, repoVars, solveVars,
                   compileVars>>

\* lines 35-37
ArchiveRemovePrior ==
    /\ ar_pc = "remove"
    /\ ar_file' = RemovePrior(ar_file)
    /\ ar_pc' = "mkdir"
    /\ UNCHANGED <<ar_inputs, ar_dir, ar_res, ar_exc, n_archives>>
    /\ UNCHANGED <<buildVars, catVars, manVars, cliVars, idVars, repoVars, solveVars,
                   compileVars>>

\* line 40: fs::create_directories(ar.out_path.parent_path())
ArchiveCreateDirectories ==
    /\ ar_pc = "mkdir"
    /\ ar_dir' = TRUE
    /\ ar_pc' = "run"
    /\ UNCHANGED <<ar_inputs, ar_file, ar_res, ar_exc, n_archives>>
    /\ UNCHANGED <<buildVars, catVars, manVars, cliVars, idVars, repoVars, solveVars,
                   compileVars>>

\* line 44: run_proc(ar_cmd) starts the archiver
ArchiveRunProc ==
    /\ ar_pc = "run"
    /\ ar_pc' = "running"
    /\ UNCHANGED <<ar_inputs, ar_file, ar_dir, ar_res, ar_exc, n_archives>>
    /\ UNCHANGED <<buildVars, catVars, manVars, cliVars, idVars, repoVars, solveVars,
                   compileVars>>

\* lines 44-54: the archiver exits. A successful run has written the archive,
\* a failed one has written nothing or a part of it, on top of what it
\* found; archive() returns when the result is okay and throws
\* std::runtime_error when it is not
ArchiveProcExit(res, wrote) ==
    /\ ar_pc = "running"
    /\ ar_res' = res
    /\ IF ProcOkay(res)
       THEN /\ ar_file' = "new"
            /\ ar_exc' = NoExc
            /\ ar_pc' = "returned"
       ELSE /\ ar_file' = IF wrote THEN "partial" ELSE ar_file
            /\ ar_exc' = Exc("std::runtime_error", "none")
            /\ ar_pc' = "thrown"
    /\ UNCHANGED <<ar_inputs, ar_dir, n_archives>>
    /\ UNCHANGED <<buildVars, catVars, manVars, cliVars, idVars, repoVars, solveVars,
                   compileVars>>

\* between two builds the output directory may be deleted
ArchiveClean ==
    /\ ar_pc \in {"returned", "thrown"}
    /\ ar_dir
    /\ ar_dir' = FALSE
    /\ ar_file' = "absent"
    /\ UNCHANGED <<ar_inputs, ar_pc, ar_res, ar_exc, n_archives>>
    /\ UNCHANGED <<buildVars, catVars, manVars, cliVars, idVars, repoVars, solveVars,
                   compileVars>>

NextArchive ==
    \/ ArchiveStart
    \/ ArchiveRemovePrior
    \/ ArchiveCreateDirectories
    \/ ArchiveRunProc
    \/ \E res \in ProcResults, wrote \in BOOLEAN : ArchiveProcExit(res, wrote)
    \/ ArchiveClean

InitArchiveOnly ==
    /\ InitBuildVars
    /\ deps_mode = "gnu"
    /\ parallel_jobs = 0
    /\ InitCatalog
    /\ InitManifest
    /\ InitMain
    /\ InitId
    /\ InitRepo
    /\ InitSolve
    /\ InitCompile
    /\ ar_inputs \in ArchiveInputs
    /\ ar_file \in {"absent", "new"}
    /\ ar_dir = (ar_file = "new")
    /\ ar_pc = "idle"
    /\ ar_res = ProcResult(0, 0)
    /\ ar_exc = NoExc
    /\ n_archives = 0

SpecArchive == InitArchiveOnly /\ [][NextArchive]_vars

(***************************************************************************)
(* Properties of archive()                                                  *)
(***************************************************************************)
\* C23: archive() of a library without object files does not start the
\* archiver and ends by throwing archive_failure.
C23_NoInputs ==
    ar_inputs = <<>> =>
        /\ ar_pc # "running"
        /\ ar_pc # "returned"
        /\ ar_pc = "thrown" => ar_exc.errc = "archive_failure"

\* C24: while the archiver runs the output path holds no prior archive and
\* its directory exists; archive() ends by throwing exactly when the
\* archiver's result is not okay, and no prior archive is left then.
C24_RemoveBeforeRun ==
    /\ ar_pc = "running" => ar_file = "absent" /\ ar_dir
    /\ ar_pc = "thrown" => ~ProcOkay(ar_res) /\ ar_exc # NoExc /\ ar_file # "prior"
    /\ ar_pc = "returned" => ProcOkay(ar_res) /\ ar_exc = NoExc

\* the second archive() of a library found the archive of the first, and its
\* archiver was killed by a signal without writing anything
C24_Witness ==
    /\ n_archives = 2
    /\ ar_pc = "thrown"
    /\ ar_res = ProcResult(0, 9)
    /\ ar_file = "absent"
    /\ ar_dir

(***************************************************************************)
(* do_compile as a function of the job and of what the compiler did         *)
(***************************************************************************)
\* lines 147-149 and 163-172: the output that is logged, without the include
\* notes in msvc mode and without a leading line that is the file's name
ShownOutput(j, mode, compiled_okay) ==
    LET output == CompilerOutput(j, mode, compiled_okay)
        cleaned == IF mode = "msvc" THEN ParseMsvcOutputForDeps(output).cleaned_output
                   ELSE output
    IN  IF cleaned # <<>> /\ cleaned[1].text = j THEN Tail(cleaned) ELSE cleaned

\* a do_compile that never throws
CompileThrows_Never(res) == FALSE

\* lines 120 and 175-185: the throw of compile_failure
CompileThrows(res) == ~ProcOkay(res)

\* lines 128-137: the critical message about the missing depfile
LogsCritical(mode, depfile_exists) == mode = "gnu" /\ ~depfile_exists

\* do_compile, lines 98-198
DoCompile(j, mode, fl, res, depfile_exists) ==
    LET ret == RetDepsInfo(j, mode, fl, ProcOkay(res), depfile_exists)
    IN  [done |-> TRUE,
         threw |-> CompileThrows(res),
         exc |-> IF CompileThrows(res)
                    THEN [errc |-> "compile_failure", source |-> j]
                    ELSE [errc |-> "none", source |-> ""],
         ret |-> IF CompileThrows(res) THEN NoDeps ELSE ret,
         shown |-> ShownOutput(j, mode, ProcOkay(res)),
         critical |-> LogsCritical(mode, depfile_exists),
         signal_logged |-> CompileThrows(res) /\ res.signal # 0]

DoCompileCall ==
    /\ ~dc_result.done
    /\ dc_result' = DoCompile(dc_input.job, dc_input.mode, dc_input.flags,
                              dc_input.res, dc_input.depfile_exists)
    /\ UNCHANGED dc_input
    /\ UNCHANGED <<buildVars, catVars, manVars, cliVars, idVars, repoVars, solveVars,
                   archiveVars>>

NextCompile == DoCompileCall

InitCompileOnly ==
    /\ InitBuildVars
    /\ deps_mode = "gnu"
    /\ parallel_jobs = 0
    /\ InitCatalog
    /\ InitManifest
    /\ InitMain
    /\ InitId
    /\ InitRepo
    /\ InitSolve
    /\ InitArchive
    /\ dc_input \in [job : Jobs, mode : DepsModes, flags : FlagSets,
                     res : ProcResults, depfile_exists : BOOLEAN]
    /\ dc_result = NotCompiled

SpecCompile == InitCompileOnly /\ [][NextCompile]_vars

(***************************************************************************)
(* Properties of do_compile                                                 *)
(***************************************************************************)
NoNotes(output) == \A i \in 1..Len(output) : ~output[i].note

\* the lines of the compiler's output that carry the include-note prefix
Notes == SelectSeq(CompilerOutput(dc_input.job, dc_input.mode, ProcOkay(dc_input.res)),
                   LAMBDA l : l.note)

MsvcSucceeded == dc_result.done /\ dc_input.mode = "msvc" /\ ~dc_result.threw

\* the record names the source file and every noted path, and neither the
\* stored nor the shown output holds a note
RecordComplete ==
    /\ dc_result.ret.has
    /\ dc_input.job \in SeqToSet(dc_result.ret.inputs)
    /\ \A i \in 1..Len(Notes) : Notes[i].text \in SeqToSet(dc_result.ret.inputs)
    /\ NoNotes(dc_result.ret.command_output)

\* C25 as stated: every successful msvc compile, with or without include
\* notes in its output, yields a record that lists the source file and the
\* noted paths, and no note is left in the stored or shown output.
C25_Original == MsvcSucceeded => RecordComplete /\ NoNotes(dc_result.shown)

\* C25: a successful msvc compile whose output holds an include note yields
\* a record that lists the source file and every noted path, one whose
\* output holds none yields no record; no note is left in the stored or
\* shown output.
C25_MsvcRecord ==
    MsvcSucceeded =>
        /\ Notes # <<>> => RecordComplete
        /\ Notes = <<>> => ~dc_result.ret.has
        /\ NoNotes(dc_result.shown)

\* a.cpp, which includes h.hpp, was compiled in msvc mode: the record lists
\* h.hpp and a.cpp
C25_Witness ==
    /\ MsvcSucceeded
    /\ dc_input.job = "a.cpp"
    /\ dc_result.ret.has
    /\ dc_result.ret.inputs = <<"h.hpp", "a.cpp">>

\* C26: do_compile throws exactly when the compiler's result is not okay
\* (exit code or signal), in every deps mode and with or without a depfile;
\* what it throws is compile_failure naming the source; a missing depfile
\* in gnu mode is logged as critical and alone raises nothing.
C26_CompileFailure ==
    dc_result.done =>
        /\ dc_result.threw <=> (dc_input.res.retc # 0 \/ dc_input.res.signal # 0)
        /\ dc_result.threw => /\ dc_result.exc.errc = "compile_failure"
                              /\ dc_result.exc.source = dc_input.job
                              /\ ~dc_result.ret.has
        /\ (dc_input.mode = "gnu" /\ ~dc_input.depfile_exists)
              => dc_result.critical /\ ~dc_result.ret.has

\* a gnu compile was killed by a signal and left no depfile: do_compile
\* threw compile_failure for its source
C26_Witness ==
    /\ dc_result.done
    /\ dc_input.mode = "gnu" /\ ~dc_input.depfile_exists
    /\ dc_input.res = ProcResult(0, 9)
    /\ dc_result.threw /\ dc_result.exc.source = dc_input.job

(***************************************************************************)
(* Properties of parallel_run and compile_all                               *)
(***************************************************************************)
\* C27: no job is passed to fn twice, no two workers are inside fn with the
\* same job, the cursor stays within the range, and when parallel_run has
\* returned true every job of the range was passed to fn once.
C27_EachJobOnce ==
    /\ \A j \in Jobs : handed[j] <= 1
    /\ \A v, w \in InFn : witem[v] = witem[w] => v = w
    /\ iter <= Len(each_realized) + 1
    /\ (main_pc \in {"tr", "update"} /\ okay)
          => \A j \in Jobs : handed[j] = IF j \in SeqToSet(each_realized) THEN 1 ELSE 0

\* parallel_run returned true after two workers had compiled the two jobs
C27_Witness ==
    /\ main_pc = "tr" /\ okay
    /\ Len(each_realized) = 2
    /\ n_jobs = 2
    /\ witem["t1"] # "none" /\ witem["t2"] # "none" /\ witem["t1"] # witem["t2"]

\* compile_all is about to return: every update_deps_info call was made
AllWritten == main_pc = "update" /\ upd > Len(all_new_deps)

\* C28: when compile_all returns, true or false, the dep-db holds for every
\* output the record a successful compile of this call returned for it, and
\* for every other output, that of a failed compile included, what it held
\* before the call.
C28_RecordsWritten ==
    AllWritten =>
        /\ \A r \in returned :
              db[r.output] = [command |-> r.command, inputs |-> r.inputs,
                              command_output |-> r.command_output]
        /\ \A o \in Objects :
              (\A r \in returned : r.output # o) => db[o] = db_before[o]
        /\ \A i \in 1..Len(exceptions) :
              \A r \in returned : r.output # ObjectFilePath(exceptions[i].source)

\* compile_all is about to return false: one compile failed, the other one
\* returned a record, and that record is in the dep-db
C28_Witness ==
    /\ AllWritten
    /\ ~okay
    /\ Len(exceptions) = 1
    /\ Cardinality(returned) = 1
    /\ \E r \in returned : db[r.output].command = r.command /\ db_before[r.output] = NoRecord

\* every thread of parallel_run has left run_one and has been joined
AllDone == joined = n_jobs /\ \A i \in 1..n_jobs : wpc[ThreadIds[i]] = "done"

\* C29: a parallel_run that has begun returns; when it has returned no
\* thread holds the mutex, every thread has left its loop and is joined, and
\* it returned true exactly when no exception was recorded.
C29_Terminates ==
    /\ (main_pc = "spawn") ~> (main_pc = "tr")
    /\ [](main_pc = "tr" => /\ AllDone
                            /\ mut = "none"
                            /\ okay <=> (exceptions = <<>>))

\* parallel_run returned false: a worker had recorded an exception
C29_Witness ==
    /\ main_pc = "tr"
    /\ ~okay
    /\ exceptions # <<>>
    /\ n_jobs = 2
    /\ AllDone

====
